---- MODULE Spec2Model ----
(***************************************************************************)
(* Model of the threat intelligence graph store of                         *)
(* backend/data_layer/neo4j_connector.py: the embedded (simulation mode)   *)
(* collections of Neo4jConnector, its snapshot file, its traversals, the   *)
(* live branches that query a Neo4j server, and the ingestion function     *)
(* store_crawler_records.                                                  *)
(*                                                                         *)
(* Strings the code only stores, compares or concatenates are TLA+         *)
(* strings.  Strings the code inspects character by character (a record's  *)
(* severity, a metadata cvss_score) are sequences of one-character         *)
(* strings.  A Python value whose type the code tests at run time is a     *)
(* tagged record: PyNone, PyStr(s), PyNum(n).                              *)
(***************************************************************************)
EXTENDS Integers, Sequences, FiniteSets, TLC

VARIABLES
    nodes,          \* self.nodes: the dict of ThreatNode, in insertion order
    relationships,  \* self.relationships: the list of ThreatRelationship
    file,           \* the snapshot file at self.persistence_file
    tmp,            \* the temporary file persistence_file.with_suffix('.tmp')
    arg,            \* the input of the call under way (pure-function specifications)
    ret,            \* the last completed call: its name, arguments and return value
    hist,           \* history of the calls so far, as far as the properties read it
    pc,             \* position inside _save_persistent_data (SpecCrash)
    simulation_mode, \* self.simulation_mode
    driver,         \* self.driver is not None
    connected,      \* self.connected
    backend         \* the graph held by the Neo4j server at self.uri

vars == <<nodes, relationships, file, tmp, arg, ret, hist, pc,
          simulation_mode, driver, connected, backend>>

\* The fields and the database that only the live branches touch.
live == <<simulation_mode, driver, connected, backend>>

-----------------------------------------------------------------------------
(* Python values *)

PyNone == [t |-> "none"]
PyStr(s) == [t |-> "str", v |-> s]
PyNum(n) == [t |-> "num", v |-> n]

\* Optional[str] arguments: None or a string
NoneArg == [some |-> FALSE]
Some(x) == [some |-> TRUE, v |-> x]

\* The database of a server nobody wrote to.
EmptyBackend == [nodes |-> <<>>, relationships |-> <<>>]

\* NEO4J_AVAILABLE is False: __init__ takes the else branch of line 63.
DriverNotInstalled ==
    /\ simulation_mode = TRUE
    /\ driver = FALSE
    /\ connected = FALSE
    /\ backend = EmptyBackend

NoCall == [op |-> "none"]
NoHist == [op |-> "none"]

Range(s) == {s[i] : i \in DOMAIN s}

\* dict.update, and SET n += $properties: the keys of the second map are set
\* in the first.
Update(properties, metadata) ==
    [k \in DOMAIN properties \cup DOMAIN metadata |->
        IF k \in DOMAIN metadata THEN metadata[k] ELSE properties[k]]

-----------------------------------------------------------------------------
(* ThreatNode, ThreatRelationship *)

ThreatNode(id, type, props) ==
    [node_id |-> id, node_type |-> type, properties |-> props]

ThreatRelationship(src, tgt, type, props) ==
    [source_id |-> src, target_id |-> tgt, relationship_type |-> type,
     properties |-> props]

\* The keys of the dict self.nodes, and the test `k in self.nodes`.
NodeKeys(ns) == {ns[i].node_id : i \in DOMAIN ns}

\* self.nodes[k] for a key of the dict.
NodeAt(ns, k) == ns[CHOOSE i \in DOMAIN ns : ns[i].node_id = k]

\* self.nodes[node.node_id] = node: a new key is appended, an existing key keeps
\* its place in the dict and gets the new value.
DictSet(ns, node) ==
    IF node.node_id \in NodeKeys(ns)
    THEN [i \in DOMAIN ns |-> IF ns[i].node_id = node.node_id THEN node ELSE ns[i]]
    ELSE Append(ns, node)

\* create_node that leaves a node already stored under the id as it is.
CreateNodeKeepOld(ns, node) ==
    IF node.node_id \in NodeKeys(ns) THEN ns ELSE Append(ns, node)

\* create_node in simulation mode.
CreateNode(ns, node) == DictSet(ns, node)

\* create_relationship in simulation mode.
CreateRelationship(rs, rel) == Append(rs, rel)

\* get_node in simulation mode: self.nodes.get(node_id).
GetNode(ns, id) == IF id \in NodeKeys(ns) THEN Some(NodeAt(ns, id)) ELSE NoneArg

-----------------------------------------------------------------------------
(* find_related_nodes, simulation mode *)

\* RelatedMatch without the relationship_type filter.
RelatedMatchAnyType(ns, rel, node_id, relationship_type) ==
    /\ rel.source_id = node_id
    /\ rel.target_id \in NodeKeys(ns)

\* The three nested tests of the loop body.
RelatedMatch(ns, rel, node_id, relationship_type) ==
    /\ rel.source_id = node_id
    /\ (~relationship_type.some \/ rel.relationship_type = relationship_type.v)
    /\ rel.target_id \in NodeKeys(ns)

RECURSIVE FindRelatedNodes(_, _, _, _, _)
FindRelatedNodes(ns, rs, node_id, relationship_type, max_depth) ==
    IF rs = <<>> THEN <<>>
    ELSE LET rel == Head(rs)
             rest == FindRelatedNodes(ns, Tail(rs), node_id, relationship_type, max_depth)
         IN  IF RelatedMatch(ns, rel, node_id, relationship_type)
             THEN <<NodeAt(ns, rel.target_id)>> \o rest
             ELSE rest

-----------------------------------------------------------------------------
(* find_attack_paths, simulation mode *)

\* while queue and len(paths) < 10
PathCap == 10

\* Extensions without the visited_in_path test.
RECURSIVE ExtensionsRevisit(_, _, _)
ExtensionsRevisit(path, visited_in_path, rs) ==
    IF rs = <<>> THEN <<>>
    ELSE LET rel == Head(rs)
             rest == ExtensionsRevisit(path, visited_in_path, Tail(rs))
         IN  IF rel.source_id = path[Len(path)]
             THEN <<[path |-> Append(path, rel.target_id),
                     visited |-> visited_in_path \cup {rel.target_id}]>> \o rest
             ELSE rest

\* The queue entries appended for one popped (path, visited_in_path).
RECURSIVE Extensions(_, _, _)
Extensions(path, visited_in_path, rs) ==
    IF rs = <<>> THEN <<>>
    ELSE LET rel == Head(rs)
             rest == Extensions(path, visited_in_path, Tail(rs))
         IN  IF rel.source_id = path[Len(path)] /\ rel.target_id \notin visited_in_path
             THEN <<[path |-> Append(path, rel.target_id),
                     visited |-> visited_in_path \cup {rel.target_id}]>> \o rest
             ELSE rest

\* The loop with queue.pop() in place of queue.pop(0): the newest entry first.
RECURSIVE PathLoopNewestFirst(_, _, _, _, _)
PathLoopNewestFirst(queue, paths, rs, target_id, max_length) ==
    IF queue = <<>> \/ Len(paths) >= PathCap THEN paths
    ELSE LET path == queue[Len(queue)].path
             visited_in_path == queue[Len(queue)].visited
             rest == SubSeq(queue, 1, Len(queue) - 1)
         IN  IF path[Len(path)] = target_id
             THEN PathLoopNewestFirst(rest, Append(paths, path), rs, target_id,
                                      max_length)
             ELSE IF Len(path) >= max_length
             THEN PathLoopNewestFirst(rest, paths, rs, target_id, max_length)
             ELSE PathLoopNewestFirst(rest \o Extensions(path, visited_in_path, rs),
                                      paths, rs, target_id, max_length)

RECURSIVE PathLoop(_, _, _, _, _)
PathLoop(queue, paths, rs, target_id, max_length) ==
    IF queue = <<>> \/ Len(paths) >= PathCap THEN paths
    ELSE LET path == Head(queue).path
             visited_in_path == Head(queue).visited
             rest == Tail(queue)
         IN  IF path[Len(path)] = target_id
             THEN PathLoop(rest, Append(paths, path), rs, target_id, max_length)
             ELSE IF Len(path) >= max_length
             THEN PathLoop(rest, paths, rs, target_id, max_length)
             ELSE PathLoop(rest \o Extensions(path, visited_in_path, rs),
                           paths, rs, target_id, max_length)

FindAttackPaths(rs, source_id, target_id, max_length) ==
    PathLoop(<<[path |-> <<source_id>>, visited |-> {source_id}]>>,
             <<>>, rs, target_id, max_length)

-----------------------------------------------------------------------------
(* The Neo4j server: what the Cypher queries of the live branches do.        *)
(* backend.nodes is the sequence of the nodes created, each with its label   *)
(* and property map; backend.relationships the sequence of relationships,    *)
(* each between two positions of backend.nodes.                              *)

\* LIMIT 100 of the find_related_nodes query, LIMIT 10 of the find_attack_paths query
RelatedCap == 100
LivePathCap == 10

\* A label or relationship type the query text cannot hold: f"(n:{node_type} ..."
\* with an empty string is not Cypher, and the server rejects the query.
BadLabel(type) == type = ""

\* A query of a live store fails whenever the driver was closed or the query
\* text is not Cypher, and may fail at any other time.
QueryFails(bad) == IF ~connected \/ bad THEN {TRUE} ELSE BOOLEAN

\* The positions of a set of positions, in ascending order.
RECURSIVE Ascending(_)
Ascending(S) ==
    IF S = {} THEN <<>>
    ELSE LET m == CHOOSE x \in S : \A y \in S : x <= y
         IN  <<m>> \o Ascending(S \ {m})

\* The rows of a result set, in the order the server hands them out.
RECURSIVE Rows(_)
Rows(S) ==
    IF S = {} THEN <<>>
    ELSE LET row == CHOOSE x \in S : TRUE
         IN  <<row>> \o Rows(S \ {row})

Limit(rows, cap) == IF Len(rows) > cap THEN SubSeq(rows, 1, cap) ELSE rows

\* MATCH (n {node_id: $node_id}): the positions of the nodes with that node_id.
Matches(b, id) == {i \in DOMAIN b.nodes : b.nodes[i].props["node_id"] = id}

\* CREATE (n:<node_type> {node_id: $node_id}) SET n += $properties: a node is
\* added, whatever nodes the database holds.
LiveCreateNode(b, node) ==
    [b EXCEPT !.nodes =
        Append(@, [label |-> node.node_type,
                   props |-> Update([node_id |-> node.node_id], node.properties)])]

\* MATCH (a ...) MATCH (b ...) CREATE (a)-[r:<type>]->(b) SET r += $properties:
\* one relationship for every pair of matches, none when either side has none.
LiveCreateRelationship(b, rel) ==
    LET sources == Ascending(Matches(b, rel.source_id))
        targets == Ascending(Matches(b, rel.target_id))
        created ==
            [k \in 1..(Len(sources) * Len(targets)) |->
                [a |-> sources[((k - 1) \div Len(targets)) + 1],
                 b |-> targets[((k - 1) % Len(targets)) + 1],
                 type |-> rel.relationship_type,
                 props |-> rel.properties]]
    IN  [b EXCEPT !.relationships = @ \o created]

\* ThreatNode(node_id=node['node_id'], node_type=labels[0], properties=dict(node))
LiveNode(n) == ThreatNode(n.props["node_id"], n.label, n.props)

\* MATCH (n {node_id: $node_id}) RETURN n, labels(n); result.single()
LiveGetNode(b, id) ==
    LET found == Ascending(Matches(b, id))
    IN  IF found = <<>> THEN NoneArg ELSE Some(LiveNode(b.nodes[found[1]]))

\* The other end of a relationship, seen from the node at position at.
OtherEnd(rel, at) == IF rel.a = at THEN rel.b ELSE rel.a

\* The relationships a variable-length pattern may take next from position at:
\* either direction, of the type asked for, not yet used on this path.
TrailSteps(b, at, used, type) ==
    {j \in DOMAIN b.relationships \ used :
        /\ (b.relationships[j].a = at \/ b.relationships[j].b = at)
        /\ (type.some => b.relationships[j].type = type.v)}

\* -[*1..d]- from a position: every path of 1 to d relationships, as the
\* positions it visits and the relationships it uses.
RECURSIVE Trails(_, _, _, _)
Trails(b, path, type, d) ==
    IF d <= 0 THEN {}
    ELSE LET at == path.nodes[Len(path.nodes)]
             used == {path.rels[i] : i \in DOMAIN path.rels}
         IN  UNION {
               LET next == [nodes |-> Append(path.nodes,
                                             OtherEnd(b.relationships[j], at)),
                            rels |-> Append(path.rels, j)]
               IN  {next} \cup Trails(b, next, type, d - 1)
               : j \in TrailSteps(b, at, used, type)}

TrailsFrom(b, id, type, d) ==
    UNION {Trails(b, [nodes |-> <<i>>, rels |-> <<>>], type, d) : i \in Matches(b, id)}

\* rel_filter = f":{relationship_type}" if relationship_type else ""
RelFilter(relationship_type) ==
    IF relationship_type.some /\ relationship_type.v # ""
    THEN relationship_type ELSE NoneArg

\* MATCH (start {node_id})-[r<filter>*1..<max_depth>]-(related)
\* RETURN DISTINCT related, labels(related) LIMIT 100
LiveFindRelatedNodes(b, node_id, relationship_type, max_depth) ==
    LET paths == TrailsFrom(b, node_id, RelFilter(relationship_type), max_depth)
        ends == {p.nodes[Len(p.nodes)] : p \in paths}
        rows == Limit(Rows(ends), RelatedCap)
    IN  [k \in DOMAIN rows |-> LiveNode(b.nodes[rows[k]])]

\* MATCH path = (start {node_id})-[*1..<max_length>]-(end {node_id})
\* RETURN [node IN nodes(path) | node.node_id] LIMIT 10
LiveFindAttackPaths(b, source_id, target_id, max_length) ==
    LET paths == {p \in TrailsFrom(b, source_id, NoneArg, max_length) :
                     p.nodes[Len(p.nodes)] \in Matches(b, target_id)}
        rows == Limit(Rows(paths), LivePathCap)
    IN  [k \in DOMAIN rows |->
            [i \in DOMAIN rows[k].nodes |-> b.nodes[rows[k].nodes[i]].props["node_id"]]]

\* The four counting queries of get_threat_statistics.
LiveGetThreatStatistics(b) ==
    [total_nodes |-> Len(b.nodes),
     total_relationships |-> Len(b.relationships),
     node_types |->
        [t \in {b.nodes[i].label : i \in DOMAIN b.nodes} |->
            Cardinality({i \in DOMAIN b.nodes : b.nodes[i].label = t})],
     relationship_types |->
        [t \in {b.relationships[i].type : i \in DOMAIN b.relationships} |->
            Cardinality({i \in DOMAIN b.relationships : b.relationships[i].type = t})]]

\* MATCH (n) DETACH DELETE n
LiveClearDatabase(b) == EmptyBackend

-----------------------------------------------------------------------------
(* Specification SpecPaths: find_attack_paths applied to every small graph *)

PathIds == {"A", "B", "C"}

\* Most relationships in a drawn graph, and the largest max_length asked for.
MaxPathRels == 3
MaxLength == 3

PathNode(id) == ThreatNode(id, "ThreatActor", [name |-> id])

\* The node mappings drawn: none, some or all of the ids have a node.
PathNodeSeqs ==
    {<<>>, <<PathNode("A")>>, <<PathNode("A"), PathNode("B")>>,
     <<PathNode("A"), PathNode("B"), PathNode("C")>>}

PathRels ==
    {ThreatRelationship(s, t, "USES", [confidence |-> "0.9"]) : s \in PathIds, t \in PathIds}

PathRelSeqs == UNION {[1..k -> PathRels] : k \in 0..MaxPathRels}

InitPaths ==
    /\ nodes \in PathNodeSeqs
    /\ relationships \in PathRelSeqs
    /\ file = [exists |-> FALSE]
    /\ tmp = [exists |-> FALSE]
    /\ arg = NoCall
    /\ ret = NoCall
    /\ hist = NoHist
    /\ pc = "idle"
    /\ DriverNotInstalled

\* connector.find_attack_paths(source_id, target_id, max_length)
find_attack_paths(source_id, target_id, max_length) ==
    /\ ret = NoCall
    /\ IF simulation_mode
       THEN ret' = [op |-> "find_attack_paths", source_id |-> source_id,
                    target_id |-> target_id, max_length |-> max_length,
                    value |-> FindAttackPaths(relationships, source_id, target_id,
                                              max_length)]
       ELSE \E fails \in QueryFails(FALSE) :
            ret' = [op |-> "find_attack_paths", source_id |-> source_id,
                    target_id |-> target_id, max_length |-> max_length,
                    value |-> IF fails THEN <<>>
                              ELSE LiveFindAttackPaths(backend, source_id, target_id,
                                                       max_length),
                    query_failed |-> fails, raised |-> "none"]
    /\ UNCHANGED <<nodes, relationships, file, tmp, arg, hist, pc>>
    /\ UNCHANGED live

\* The caller drops the value it was returned.
Forget ==
    /\ ret # NoCall
    /\ ret' = NoCall
    /\ UNCHANGED <<nodes, relationships, file, tmp, arg, hist, pc>>
    /\ UNCHANGED live

NextPaths ==
    \/ \E s \in PathIds, t \in PathIds, L \in 0..MaxLength : find_attack_paths(s, t, L)
    \/ Forget

SpecPaths == InitPaths /\ [][NextPaths]_vars

NoRepeat(p) == \A i, j \in DOMAIN p : i # j => p[i] # p[j]

\* C3: every path returned by find_attack_paths(s, t, L) has at most L+1 nodes,
\* starts at s, ends at t and holds no node id twice.
C3_PathBound ==
    ret.op = "find_attack_paths" =>
        \A k \in DOMAIN ret.value :
            LET p == ret.value[k]
            IN  /\ Len(p) >= 1
                /\ Len(p) <= ret.max_length + 1
                /\ p[1] = ret.source_id
                /\ p[Len(p)] = ret.target_id
                /\ NoRepeat(p)

\* A three-node path was returned from a graph that has a relationship leading
\* back into that path (a cycle or a self-loop).
C3_Witness ==
    /\ ret.op = "find_attack_paths"
    /\ \E k \in DOMAIN ret.value :
         LET p == ret.value[k]
         IN  /\ Len(p) = 3
             /\ \E i \in DOMAIN relationships :
                  /\ relationships[i].source_id = p[2]
                  /\ relationships[i].target_id \in {p[1], p[2]}

\* C9: find_attack_paths returns the empty list whenever source_id or target_id
\* is not an id in the node mapping.
C9_Claim ==
    (/\ ret.op = "find_attack_paths"
     /\ (ret.source_id \notin NodeKeys(nodes) \/ ret.target_id \notin NodeKeys(nodes)))
    => ret.value = <<>>

-----------------------------------------------------------------------------
(* Specification SpecRelated: find_related_nodes applied to every small store *)

RelatedIds == {"A", "B"}
RelTypes == {"USES", "EXPLOITS"}

\* Most relationships in a drawn store, and the largest max_depth asked for.
MaxRelatedRels == 2
MaxDepth == 2

RelatedNode(id) == ThreatNode(id, "Malware", [name |-> id])

\* Every node mapping over RelatedIds, in every insertion order.
RelatedNodeSeqs ==
    {ns \in UNION {[1..k -> {RelatedNode(id) : id \in RelatedIds}] :
                     k \in 0..Cardinality(RelatedIds)} :
        \A i, j \in DOMAIN ns : i # j => ns[i].node_id # ns[j].node_id}

RelatedRels ==
    {ThreatRelationship(s, t, r, [confidence |-> "0.9"]) :
        s \in RelatedIds, t \in RelatedIds, r \in RelTypes}

RelatedRelSeqs == UNION {[1..k -> RelatedRels] : k \in 0..MaxRelatedRels}

InitRelated ==
    /\ nodes \in RelatedNodeSeqs
    /\ relationships \in RelatedRelSeqs
    /\ file = [exists |-> FALSE]
    /\ tmp = [exists |-> FALSE]
    /\ arg = NoCall
    /\ ret = NoCall
    /\ hist = NoHist
    /\ pc = "idle"
    /\ DriverNotInstalled

\* connector.find_related_nodes(node_id, relationship_type, max_depth)
find_related_nodes(node_id, relationship_type, max_depth) ==
    /\ ret = NoCall
    /\ IF simulation_mode
       THEN ret' = [op |-> "find_related_nodes", node_id |-> node_id,
                    relationship_type |-> relationship_type, max_depth |-> max_depth,
                    value |-> FindRelatedNodes(nodes, relationships, node_id,
                                               relationship_type, max_depth)]
       ELSE \E fails \in QueryFails(FALSE) :
            ret' = [op |-> "find_related_nodes", node_id |-> node_id,
                    relationship_type |-> relationship_type, max_depth |-> max_depth,
                    value |-> IF fails THEN <<>>
                              ELSE LiveFindRelatedNodes(backend, node_id,
                                                        relationship_type, max_depth),
                    query_failed |-> fails, raised |-> "none"]
    /\ UNCHANGED <<nodes, relationships, file, tmp, arg, hist, pc>>
    /\ UNCHANGED live

NextRelated ==
    \/ \E n \in RelatedIds, r \in {NoneArg} \cup {Some(x) : x \in RelTypes},
          d \in 1..MaxDepth : find_related_nodes(n, r, d)
    \/ Forget

SpecRelated == InitRelated /\ [][NextRelated]_vars

\* The target ids of the stored relationships with source_id = n and type = r.
TargetsOf(n, r) ==
    {relationships[i].target_id : i \in
        {j \in DOMAIN relationships :
            /\ relationships[j].source_id = n
            /\ relationships[j].relationship_type = r}}

ReturnedIds == {ret.value[i].node_id : i \in DOMAIN ret.value}

OneHopTyped ==
    /\ ret.op = "find_related_nodes"
    /\ ret.relationship_type.some
    /\ ret.max_depth = 1

\* C4 as claimed: the ids returned by find_related_nodes(n, r, 1) are exactly the
\* target ids of the relationships with source_id = n and type = r, dangling
\* targets included.
C4_Claim ==
    OneHopTyped => ReturnedIds = TargetsOf(ret.node_id, ret.relationship_type.v)

\* C4 amended: the ids returned by find_related_nodes(n, r, 1) are exactly the
\* target ids of the relationships with source_id = n and type = r that are ids
\* of the node mapping, and each returned node is the stored node of its id.
C4_StoredTargets ==
    OneHopTyped =>
        /\ ReturnedIds = TargetsOf(ret.node_id, ret.relationship_type.v) \cap NodeKeys(nodes)
        /\ \A i \in DOMAIN ret.value : ret.value[i] \in Range(nodes)

\* A call that returned a node while another relationship of the same source and
\* type points to an id without a node.
C4_Witness ==
    /\ OneHopTyped
    /\ ret.value # <<>>
    /\ TargetsOf(ret.node_id, ret.relationship_type.v) \ NodeKeys(nodes) # {}

\* C10: find_related_nodes returns the empty list whenever the id is not in the
\* node mapping or no stored relationship of that source matches the type.
C10_Claim ==
    (/\ ret.op = "find_related_nodes"
     /\ \/ ret.node_id \notin NodeKeys(nodes)
        \/ ~ \E i \in DOMAIN relationships :
               /\ relationships[i].source_id = ret.node_id
               /\ (ret.relationship_type.some =>
                     relationships[i].relationship_type = ret.relationship_type.v))
    => ret.value = <<>>

-----------------------------------------------------------------------------
(* The snapshot file: _save_persistent_data, _load_persistent_data *)

\* A file is absent, or holds a text: the sequence of chunks json.dump wrote.
Absent == [exists |-> FALSE]
FileOf(text) == [exists |-> TRUE, text |-> text]

\* {} as a properties dict
EmptyProps == <<>>

\* The dict written for one node and for one relationship.
NodeJson(node) ==
    [node_id |-> node.node_id, node_type |-> node.node_type,
     properties |-> node.properties]

RelJson(rel) ==
    [source_id |-> rel.source_id, target_id |-> rel.target_id,
     relationship_type |-> rel.relationship_type, properties |-> rel.properties]

\* json.dump(data, f): the document {"nodes": [...], "relationships": [...]}, one
\* chunk per entry between the opening and the closing of the document.
JsonDump(ns, rs) ==
    <<[kind |-> "open"]>>
    \o [i \in DOMAIN ns |-> [kind |-> "node", obj |-> NodeJson(ns[i])]]
    \o [i \in DOMAIN rs |-> [kind |-> "rel", obj |-> RelJson(rs[i])]]
    \o <<[kind |-> "close"]>>

\* json.load(f) succeeds on a complete document only.
JsonValid(text) ==
    /\ Len(text) >= 2
    /\ text[1].kind = "open"
    /\ text[Len(text)].kind = "close"
    /\ \A i \in 2..(Len(text) - 1) : text[i].kind \in {"node", "rel"}

\* data.get("nodes", []) and data.get("relationships", []) of a valid document.
JsonEntries(text, kind) ==
    LET body == SubSeq(text, 2, Len(text) - 1)
        IsKind(c) == c.kind = kind
        chunks == SelectSeq(body, IsKind)
    IN  [i \in DOMAIN chunks |-> chunks[i].obj]

\* node_data.get("properties", {})
GetProperties(obj) ==
    IF "properties" \in DOMAIN obj THEN obj.properties ELSE EmptyProps

\* The loop over data["nodes"]: a missing "node_id" or "node_type" raises KeyError,
\* which ends the load with the nodes read so far.
RECURSIVE LoadNodes(_, _)
LoadNodes(objs, ns) ==
    IF objs = <<>> THEN [ok |-> TRUE, nodes |-> ns]
    ELSE LET d == Head(objs)
         IN  IF {"node_id", "node_type"} \subseteq DOMAIN d
             THEN LoadNodes(Tail(objs),
                            DictSet(ns, ThreatNode(d.node_id, d.node_type, GetProperties(d))))
             ELSE [ok |-> FALSE, nodes |-> ns]

\* The loop over data["relationships"], likewise.
RECURSIVE LoadRels(_, _)
LoadRels(objs, rs) ==
    IF objs = <<>> THEN rs
    ELSE LET d == Head(objs)
         IN  IF {"source_id", "target_id", "relationship_type"} \subseteq DOMAIN d
             THEN LoadRels(Tail(objs),
                           Append(rs, ThreatRelationship(d.source_id, d.target_id,
                                         d.relationship_type, GetProperties(d))))
             ELSE rs

\* _load_persistent_data on the empty collections of __init__.
LoadPersistentData(f) ==
    IF ~f.exists THEN [nodes |-> <<>>, relationships |-> <<>>]
    ELSE IF ~JsonValid(f.text) THEN [nodes |-> <<>>, relationships |-> <<>>]
    ELSE LET loaded == LoadNodes(JsonEntries(f.text, "node"), <<>>)
         IN  [nodes |-> loaded.nodes,
              relationships |->
                  IF loaded.ok THEN LoadRels(JsonEntries(f.text, "rel"), <<>>)
                  ELSE <<>>]

\* The text _save_persistent_data writes, merged with what the file already holds.
SaveTextMerging(ns, rs, f) ==
    LET old == LoadPersistentData(f)
    IN  JsonDump(old.nodes \o SelectSeq(ns, LAMBDA n : n.node_id \notin NodeKeys(old.nodes)),
                 old.relationships \o rs)

\* The text _save_persistent_data writes: the full current state, whatever the
\* file holds.
SaveText(ns, rs, f) == JsonDump(ns, rs)

\* _save_persistent_data, run to its end: the temporary file is written and
\* renamed over the snapshot file.
SavePersistentData(ns, rs, f) == FileOf(SaveText(ns, rs, f))

-----------------------------------------------------------------------------
(* get_threat_statistics and clear_database, simulation mode *)

\* d[k] = 1 whatever d held for k
BumpOverwrite(d, k) ==
    IF k \in DOMAIN d THEN [d EXCEPT ![k] = 1] ELSE d @@ (k :> 1)

\* d[k] = d.get(k, 0) + 1
Bump(d, k) ==
    IF k \in DOMAIN d THEN [d EXCEPT ![k] = @ + 1] ELSE d @@ (k :> 1)

RECURSIVE CountNodeTypes(_, _)
CountNodeTypes(ns, node_types) ==
    IF ns = <<>> THEN node_types
    ELSE CountNodeTypes(Tail(ns), Bump(node_types, Head(ns).node_type))

RECURSIVE CountRelTypes(_, _)
CountRelTypes(rs, rel_types) ==
    IF rs = <<>> THEN rel_types
    ELSE CountRelTypes(Tail(rs), Bump(rel_types, Head(rs).relationship_type))

GetThreatStatistics(ns, rs) ==
    [total_nodes |-> Len(ns),
     total_relationships |-> Len(rs),
     node_types |-> CountNodeTypes(ns, <<>>),
     relationship_types |-> CountRelTypes(rs, <<>>)]

\* clear_database that leaves the snapshot file in place.
ClearFileKeep(f) == f

\* if self.persistence_file.exists(): self.persistence_file.unlink()
ClearFile(f) == IF f.exists THEN Absent ELSE f

-----------------------------------------------------------------------------
(* Specification Spec: one embedded store and its snapshot file *)

\* The longest relationship list the store is driven to.
MaxRels == 2

StoreNodes ==
    {ThreatNode("A", "ThreatActor", [name |-> "APT29"]),
     ThreatNode("A", "Malware", [name |-> "Emotet"]),
     ThreatNode("B", "Malware", [name |-> "Emotet"])}

StoreRels ==
    {ThreatRelationship("A", "B", "USES", [confidence |-> "0.9"]),
     ThreatRelationship("A", "B", "EXPLOITS", [confidence |-> "0.9"]),
     ThreatRelationship("B", "C", "USES", [confidence |-> "0.7"])}

\* What the snapshot path may hold when the first store is constructed: nothing,
\* a snapshot of an earlier run, or a document cut short.
EarlierSnapshot ==
    FileOf(JsonDump(<<ThreatNode("B", "Malware", [name |-> "Emotet"])>>,
                    <<ThreatRelationship("B", "C", "USES", [confidence |-> "0.7"])>>))

CutSnapshot ==
    FileOf(<<[kind |-> "open"],
             [kind |-> "node",
              obj |-> NodeJson(ThreatNode("B", "Malware", [name |-> "Emotet"]))]>>)

InitFiles == {Absent, EarlierSnapshot, CutSnapshot}

\* History: the collections a save wrote and the file content it replaced.
Saved(ns, rs, f) ==
    [op |-> "saved", nodes |-> ns, relationships |-> rs, previous |-> f]

\* The ghost history is kept by the specifications that start one.
TrackCreate(h) ==
    IF "saved" \in DOMAIN h THEN [cleared |-> FALSE, saved |-> NoCall] ELSE h

TrackClear(h) ==
    IF "saved" \in DOMAIN h THEN [cleared |-> TRUE, saved |-> NoCall] ELSE h

TrackSave(h, ns, rs, f) ==
    IF "saved" \in DOMAIN h THEN [h EXCEPT !.saved = Saved(ns, rs, f)] ELSE h

\* What __init__ meets when it probes the backend: the driver is not installed,
\* GraphDatabase.driver raises, the probe query raises ServiceUnavailable or
\* AuthError, the probe query raises another exception, the probe succeeds.
Probes == {"no_driver", "driver_error", "unavailable", "error", "ok"}

\* __init__ without the except clause of line 60.
InitFieldsUncaught(probe) ==
    CASE probe = "no_driver" ->
           [driver |-> FALSE, connected |-> FALSE, simulation_mode |-> TRUE,
            raised |-> "none"]
      [] probe = "driver_error" ->
           [driver |-> FALSE, connected |-> FALSE, simulation_mode |-> TRUE,
            raised |-> "Exception"]
      [] probe = "unavailable" ->
           [driver |-> TRUE, connected |-> FALSE, simulation_mode |-> TRUE,
            raised |-> "none"]
      [] probe = "error" ->
           [driver |-> TRUE, connected |-> FALSE, simulation_mode |-> TRUE,
            raised |-> "Exception"]
      [] OTHER ->
           [driver |-> TRUE, connected |-> TRUE, simulation_mode |-> FALSE,
            raised |-> "none"]

\* Lines 48-65 and _connect: the fields __init__ leaves for each probe outcome,
\* and the exception that leaves __init__ ("none": it returns).
InitFields(probe) ==
    CASE probe = "no_driver" ->
           [driver |-> FALSE, connected |-> FALSE, simulation_mode |-> TRUE,
            raised |-> "none"]
      [] probe = "driver_error" ->
           [driver |-> FALSE, connected |-> FALSE, simulation_mode |-> TRUE,
            raised |-> "none"]
      [] probe = "unavailable" ->
           [driver |-> TRUE, connected |-> FALSE, simulation_mode |-> TRUE,
            raised |-> "none"]
      [] probe = "error" ->
           [driver |-> TRUE, connected |-> FALSE, simulation_mode |-> TRUE,
            raised |-> "none"]
      [] OTHER ->
           [driver |-> TRUE, connected |-> TRUE, simulation_mode |-> FALSE,
            raised |-> "none"]

\* Lines 67-69: the snapshot is loaded in simulation mode only.
InitCollections(fields, f) ==
    IF fields.simulation_mode THEN LoadPersistentData(f)
    ELSE [nodes |-> <<>>, relationships |-> <<>>]

\* close that takes the store to simulation mode once its driver is closed.
CloseDriverFallBack(c) ==
    IF c.driver THEN [c EXCEPT !.connected = FALSE, !.simulation_mode = TRUE] ELSE c

\* Lines 85-88: if self.driver: self.driver.close(); self.connected = False
CloseDriver(c) ==
    IF c.driver THEN [c EXCEPT !.connected = FALSE] ELSE c

\* How a write of the snapshot ends: it succeeds, the directory or the temporary
\* file cannot be opened, json.dump fails part way, the rename fails.
IoOutcomes == {"ok", "open_fails", "write_fails", "replace_fails"}

\* How many chunks of the document json.dump had written when it failed.
WrittenBefore(ns, rs, f, io) ==
    IF io = "write_fails" THEN 0..(Len(SaveText(ns, rs, f)) - 1) ELSE {0}

\* _save_persistent_data under an outcome: the except clause of line 129 logs the
\* failure, the snapshot file stays as it was and the temporary file keeps what
\* reached it.
SaveOutcome(ns, rs, f, t, io, written) ==
    LET text == SaveText(ns, rs, f)
    IN  CASE io = "ok" ->
               [file |-> SavePersistentData(ns, rs, f), tmp |-> Absent,
                failed |-> FALSE, raised |-> "none"]
          [] io = "open_fails" ->
               [file |-> f, tmp |-> t, failed |-> TRUE, raised |-> "none"]
          [] io = "write_fails" ->
               [file |-> f, tmp |-> FileOf(SubSeq(text, 1, written)),
                failed |-> TRUE, raised |-> "none"]
          [] OTHER ->
               [file |-> f, tmp |-> FileOf(text), failed |-> TRUE, raised |-> "none"]

\* The most nodes and relationships the database is driven to.
MaxBackendNodes == 2
MaxBackendRels == 2

\* Neo4jConnector(...) where the driver is not installed.  hist.cleared: a
\* clear_database was called and nothing was created since; hist.saved: the last
\* save, with nothing created or cleared since.
Init ==
    /\ file \in InitFiles
    /\ nodes = LoadPersistentData(file).nodes
    /\ relationships = LoadPersistentData(file).relationships
    /\ tmp = Absent
    /\ arg = NoCall
    /\ ret = [op |-> "__init__", probe |-> "no_driver", raised |-> "none"]
    /\ hist = [cleared |-> FALSE, saved |-> NoCall]
    /\ pc = "idle"
    /\ DriverNotInstalled

\* A fresh Neo4jConnector on the same path and server, replacing the one in use.
Construct(probe) ==
    LET fields == InitFields(probe)
        loaded == InitCollections(fields, file)
    IN  /\ simulation_mode' = fields.simulation_mode
        /\ driver' = fields.driver
        /\ connected' = fields.connected
        /\ nodes' = loaded.nodes
        /\ relationships' = loaded.relationships
        /\ ret' = [op |-> "__init__", probe |-> probe, raised |-> fields.raised]
        /\ UNCHANGED <<file, tmp, arg, hist, pc, backend>>

\* create_node that writes the snapshot after storing the node.
create_node_saving(node) ==
    /\ simulation_mode
    /\ nodes' = CreateNode(nodes, node)
    /\ file' = SavePersistentData(CreateNode(nodes, node), relationships, file)
    /\ ret' = [op |-> "create_node", value |-> TRUE]
    /\ hist' = TrackCreate(hist)
    /\ UNCHANGED <<relationships, tmp, arg, pc>>
    /\ UNCHANGED live

create_node(node) ==
    IF simulation_mode
    THEN /\ nodes' = CreateNode(nodes, node)
         /\ ret' = [op |-> "create_node", value |-> TRUE]
         /\ hist' = TrackCreate(hist)
         /\ UNCHANGED <<relationships, file, tmp, arg, pc>>
         /\ UNCHANGED live
    ELSE \E fails \in QueryFails(BadLabel(node.node_type)) :
         /\ fails \/ Len(backend.nodes) < MaxBackendNodes
         /\ backend' = IF fails THEN backend ELSE LiveCreateNode(backend, node)
         /\ ret' = [op |-> "create_node", value |-> ~fails,
                    query_failed |-> fails, raised |-> "none"]
         /\ UNCHANGED <<nodes, relationships, file, tmp, arg, hist, pc>>
         /\ UNCHANGED <<simulation_mode, driver, connected>>

create_relationship(rel) ==
    IF simulation_mode
    THEN /\ Len(relationships) < MaxRels
         /\ relationships' = CreateRelationship(relationships, rel)
         /\ ret' = [op |-> "create_relationship", value |-> TRUE]
         /\ hist' = TrackCreate(hist)
         /\ UNCHANGED <<nodes, file, tmp, arg, pc>>
         /\ UNCHANGED live
    ELSE \E fails \in QueryFails(BadLabel(rel.relationship_type)) :
         /\ fails \/ Len(LiveCreateRelationship(backend, rel).relationships)
                        <= MaxBackendRels
         /\ backend' = IF fails THEN backend ELSE LiveCreateRelationship(backend, rel)
         /\ ret' = [op |-> "create_relationship", value |-> ~fails,
                    query_failed |-> fails, raised |-> "none"]
         /\ UNCHANGED <<nodes, relationships, file, tmp, arg, hist, pc>>
         /\ UNCHANGED <<simulation_mode, driver, connected>>

\* get_node that also writes the snapshot.
get_node_saving(node_id) ==
    /\ ret = NoCall
    /\ simulation_mode
    /\ ret' = [op |-> "get_node", node_id |-> node_id, value |-> GetNode(nodes, node_id)]
    /\ file' = SavePersistentData(nodes, relationships, file)
    /\ UNCHANGED <<nodes, relationships, tmp, arg, hist, pc>>
    /\ UNCHANGED live

get_node(node_id) ==
    /\ ret = NoCall
    /\ IF simulation_mode
       THEN ret' = [op |-> "get_node", node_id |-> node_id,
                    value |-> GetNode(nodes, node_id)]
       ELSE \E fails \in QueryFails(FALSE) :
            ret' = [op |-> "get_node", node_id |-> node_id,
                    value |-> IF fails THEN NoneArg ELSE LiveGetNode(backend, node_id),
                    query_failed |-> fails, raised |-> "none"]
    /\ UNCHANGED <<nodes, relationships, file, tmp, arg, hist, pc>>
    /\ UNCHANGED live

get_threat_statistics ==
    /\ IF simulation_mode
       THEN ret' = [op |-> "get_threat_statistics",
                    value |-> GetThreatStatistics(nodes, relationships)]
       ELSE \E fails \in QueryFails(FALSE) :
            ret' = [op |-> "get_threat_statistics",
                    value |-> IF fails THEN <<>> ELSE LiveGetThreatStatistics(backend),
                    query_failed |-> fails, raised |-> "none"]
    /\ UNCHANGED <<nodes, relationships, file, tmp, arg, hist, pc>>
    /\ UNCHANGED live

clear_database ==
    IF simulation_mode
    THEN /\ nodes' = <<>>
         /\ relationships' = <<>>
         /\ file' = ClearFile(file)
         /\ ret' = [op |-> "clear_database", value |-> TRUE]
         /\ hist' = TrackClear(hist)
         /\ UNCHANGED <<tmp, arg, pc>>
         /\ UNCHANGED live
    ELSE \E fails \in QueryFails(FALSE) :
         /\ backend' = IF fails THEN backend ELSE LiveClearDatabase(backend)
         /\ ret' = [op |-> "clear_database", value |-> ~fails,
                    query_failed |-> fails, raised |-> "none"]
         /\ UNCHANGED <<nodes, relationships, file, tmp, arg, hist, pc>>
         /\ UNCHANGED <<simulation_mode, driver, connected>>

\* connector._save_persistent_data(), called by its user as store_crawler_records
\* does: `if connector.simulation_mode: connector._save_persistent_data()`.
save_persistent_data(io) ==
    /\ simulation_mode
    /\ \E written \in WrittenBefore(nodes, relationships, file, io) :
         LET out == SaveOutcome(nodes, relationships, file, tmp, io, written)
         IN  /\ file' = out.file
             /\ tmp' = out.tmp
             /\ ret' = [op |-> "_save_persistent_data", save_failed |-> out.failed,
                        raised |-> out.raised]
             /\ hist' = IF out.failed THEN hist
                        ELSE TrackSave(hist, nodes, relationships, file)
    /\ UNCHANGED <<nodes, relationships, arg, pc>>
    /\ UNCHANGED live

\* close: the driver, if there is one, is closed; then, in simulation mode,
\* _save_persistent_data.
close(io) ==
    LET c == CloseDriver([driver |-> driver, connected |-> connected,
                          simulation_mode |-> simulation_mode])
    IN  /\ driver' = c.driver
        /\ connected' = c.connected
        /\ simulation_mode' = c.simulation_mode
        /\ IF c.simulation_mode
           THEN \E written \in WrittenBefore(nodes, relationships, file, io) :
                LET out == SaveOutcome(nodes, relationships, file, tmp, io, written)
                IN  /\ file' = out.file
                    /\ tmp' = out.tmp
                    /\ ret' = [op |-> "close", save_failed |-> out.failed,
                               raised |-> out.raised]
                    /\ hist' = IF out.failed THEN hist
                               ELSE TrackSave(hist, nodes, relationships, file)
           ELSE /\ io = "ok"
                /\ ret' = [op |-> "close", save_failed |-> FALSE, raised |-> "none"]
                /\ UNCHANGED <<file, tmp, hist>>
        /\ UNCHANGED <<nodes, relationships, arg, pc, backend>>

\* The store where the driver is not installed and the disk takes every write.
Next ==
    \/ Construct("no_driver")
    \/ \E node \in StoreNodes : create_node(node)
    \/ \E rel \in StoreRels : create_relationship(rel)
    \/ get_threat_statistics
    \/ clear_database
    \/ save_persistent_data("ok")
    \/ close("ok")

Spec == Init /\ [][Next]_vars

\* The sum of the counts of a breakdown dict.
RECURSIVE SumCounts(_)
SumCounts(d) ==
    IF DOMAIN d = {} THEN 0
    ELSE LET k == CHOOSE x \in DOMAIN d : TRUE
         IN  d[k] + SumCounts([x \in DOMAIN d \ {k} |-> d[x]])

\* C5: get_threat_statistics returns breakdowns whose counts sum to the totals,
\* total_nodes being the number of distinct node ids stored and
\* total_relationships the length of the relationship sequence.
C5_StatisticsConsistent ==
    ret.op = "get_threat_statistics" =>
        /\ SumCounts(ret.value.node_types) = ret.value.total_nodes
        /\ SumCounts(ret.value.relationship_types) = ret.value.total_relationships
        /\ ret.value.total_nodes = Cardinality(NodeKeys(nodes))
        /\ ret.value.total_relationships = Len(relationships)

\* Statistics of a store with two node types and two relationship types.
C5_Witness ==
    /\ ret.op = "get_threat_statistics"
    /\ Cardinality(DOMAIN ret.value.node_types) = 2
    /\ Cardinality(DOMAIN ret.value.relationship_types) = 2
    /\ ret.value.total_nodes = 2

\* C8: after clear_database both collections are empty and the snapshot file
\* does not exist, and a store constructed afterwards on the same path, also
\* after the cleared store was closed, starts with empty collections.
C8_ClearEmpties ==
    /\ ret.op = "clear_database" =>
         (nodes = <<>> /\ relationships = <<>> /\ ~file.exists)
    /\ (hist.cleared /\ ret.op = "__init__") =>
         (nodes = <<>> /\ relationships = <<>>)

\* A store constructed after a clear_database and a later close, which wrote the
\* snapshot file anew.
C8_Witness ==
    /\ hist.cleared
    /\ ret.op = "__init__"
    /\ file.exists

\* C2: _save_persistent_data followed by constructing a fresh store on the same
\* path yields the saved node mapping and the saved relationship sequence, in
\* the same order, whatever the snapshot file held before the save.
C2_RoundTrip ==
    (ret.op = "__init__" /\ hist.saved.op = "saved") =>
        /\ nodes = hist.saved.nodes
        /\ relationships = hist.saved.relationships

\* A store constructed after a save of a state with a duplicate relationship and
\* a relationship to an absent node, over a file that held a node the saved
\* state does not have.
C2_Witness ==
    /\ ret.op = "__init__"
    /\ hist.saved.op = "saved"
    /\ \E i, j \in DOMAIN relationships : i # j /\ relationships[i] = relationships[j]
    /\ \E i \in DOMAIN relationships : relationships[i].target_id \notin NodeKeys(nodes)
    /\ hist.saved.previous.exists
    /\ \E i \in DOMAIN hist.saved.previous.text :
         /\ hist.saved.previous.text[i].kind = "node"
         /\ hist.saved.previous.text[i].obj.node_id \notin NodeKeys(nodes)

-----------------------------------------------------------------------------
(* store_crawler_records: the severity of a record *)

\* bool(v) of a Python value
Truthy(v) ==
    CASE v.t = "none" -> FALSE
      [] v.t = "str" -> Len(v.v) > 0
      [] v.t = "num" -> v.v # 0
      [] OTHER -> TRUE

\* d.get(k, default) of a dict
Get(d, k, default) == IF k \in DOMAIN d THEN d[k] ELSE default

LowerLetters ==
    <<"a", "b", "c", "d", "e", "f", "g", "h", "i", "j", "k", "l", "m",
      "n", "o", "p", "q", "r", "s", "t", "u", "v", "w", "x", "y", "z">>
UpperLetters ==
    <<"A", "B", "C", "D", "E", "F", "G", "H", "I", "J", "K", "L", "M",
      "N", "O", "P", "Q", "R", "S", "T", "U", "V", "W", "X", "Y", "Z">>

UpperChar(c) ==
    IF \E i \in DOMAIN LowerLetters : LowerLetters[i] = c
    THEN UpperLetters[CHOOSE i \in DOMAIN LowerLetters : LowerLetters[i] = c]
    ELSE c

\* str.upper()
Upper(cs) == [i \in DOMAIN cs |-> UpperChar(cs[i])]

\* `word in cs` for strings
Contains(cs, word) ==
    \E i \in 0..(Len(cs) - Len(word)) : SubSeq(cs, i + 1, i + Len(word)) = word

\* str.strip()
RECURSIVE StripLeft(_)
StripLeft(cs) ==
    IF cs # <<>> /\ Head(cs) = " " THEN StripLeft(Tail(cs)) ELSE cs

RECURSIVE StripRight(_)
StripRight(cs) ==
    IF cs # <<>> /\ cs[Len(cs)] = " " THEN StripRight(SubSeq(cs, 1, Len(cs) - 1)) ELSE cs

Strip(cs) == StripRight(StripLeft(cs))

Digits == <<"0", "1", "2", "3", "4", "5", "6", "7", "8", "9">>
IsDigit(c) == \E i \in DOMAIN Digits : Digits[i] = c
DigitValue(c) == (CHOOSE i \in DOMAIN Digits : Digits[i] = c) - 1

RECURSIVE DigitsValue(_)
DigitsValue(cs) ==
    IF cs = <<>> THEN 0
    ELSE DigitsValue(SubSeq(cs, 1, Len(cs) - 1)) * 10 + DigitValue(cs[Len(cs)])

\* float(cs) of a decimal numeral, sign and fraction optional.  The value is kept
\* in tenths, rounded towards zero, which decides every comparison with 9.0, 7.0
\* and 4.0 as the float does.  ok is FALSE where float raises ValueError.
ParseFloat(cs) ==
    LET signed == cs # <<>> /\ cs[1] \in {"-", "+"}
        body == IF signed THEN Tail(cs) ELSE cs
        dots == {i \in DOMAIN body : body[i] = "."}
        dot == IF dots = {} THEN Len(body) + 1 ELSE CHOOSE i \in dots : TRUE
        whole == SubSeq(body, 1, dot - 1)
        frac == SubSeq(body, dot + 1, Len(body))
        ok == /\ Cardinality(dots) <= 1
              /\ \A i \in DOMAIN whole : IsDigit(whole[i])
              /\ \A i \in DOMAIN frac : IsDigit(frac[i])
              /\ Len(whole) + Len(frac) >= 1
        tenths == DigitsValue(whole) * 10
                  + (IF frac = <<>> THEN 0 ELSE DigitValue(frac[1]))
    IN  IF ~ok THEN [ok |-> FALSE, tenths |-> 0]
        ELSE [ok |-> TRUE,
              tenths |-> IF signed /\ cs[1] = "-" THEN 0 - tenths ELSE tenths]

\* float(str(cvss_score).strip()): a number keeps its value, a string is parsed,
\* str(None) is "None", which float rejects.
ScoreFloat(cvss_score) ==
    CASE cvss_score.t = "num" -> [ok |-> TRUE, tenths |-> cvss_score.v]
      [] cvss_score.t = "str" -> ParseFloat(Strip(cvss_score.v))
      [] OTHER -> [ok |-> FALSE, tenths |-> 0]

CRITICAL == <<"C", "R", "I", "T", "I", "C", "A", "L">>
HIGH == <<"H", "I", "G", "H">>
MEDIUM == <<"M", "E", "D", "I", "U", "M">>
LOW == <<"L", "O", "W">>

\* severity_raw = record.get("severity", "").upper() if record.get("severity") else ""
SeverityRaw(record) ==
    IF Truthy(Get(record, "severity", PyStr(<<>>)))
    THEN Upper(record["severity"].v)
    ELSE <<>>

\* The severity from the severity string, None when no word is in it.
SeverityFromString(severity_raw) ==
    IF Contains(severity_raw, CRITICAL) THEN Some("critical")
    ELSE IF Contains(severity_raw, HIGH) THEN Some("high")
    ELSE IF Contains(severity_raw, MEDIUM) THEN Some("medium")
    ELSE IF Contains(severity_raw, LOW) THEN Some("low")
    ELSE NoneArg

\* The severity from metadata["cvss_score"], None when it is absent, falsy or no
\* number.
SeverityFromCvss(record) ==
    LET metadata == Get(record, "metadata", <<>>)
        cvss_score == Get(metadata, "cvss_score", PyStr(<<>>))
    IN  IF ~Truthy(cvss_score) THEN NoneArg
        ELSE LET score_float == ScoreFloat(cvss_score)
             IN  IF ~score_float.ok THEN NoneArg
                 ELSE IF score_float.tenths >= 90 THEN Some("critical")
                 ELSE IF score_float.tenths >= 70 THEN Some("high")
                 ELSE IF score_float.tenths >= 40 THEN Some("medium")
                 ELSE Some("low")

\* Lines 802-836: the string first, then the score, then the default.
Severity(record) ==
    LET from_string == SeverityFromString(SeverityRaw(record))
    IN  IF from_string.some THEN from_string.v
        ELSE LET from_cvss == SeverityFromCvss(record)
             IN  IF from_cvss.some THEN from_cvss.v ELSE "medium"

-----------------------------------------------------------------------------
(* Specification SpecSeverity: the severity of every sample record *)

\* The severity field of the records drawn: absent, None, or a string.
SeverityFields ==
    {PyNone,
     PyStr(<<>>),
     PyStr(<<"H", "i", "g", "h">>),
     PyStr(<<"C", "R", "I", "T", "I", "C", "A", "L">>),
     PyStr(<<"l", "o", "w">>),
     PyStr(<<"M", "e", "d", "i", "u", "m">>),
     PyStr(<<"l", "o", "w", "/", "h", "i", "g", "h">>),
     PyStr(<<"n", "o", "n", "e">>)}

\* The metadata cvss_score of the records drawn: a string as the crawler writes
\* it, a number, or None.
CvssFields ==
    {PyNone,
     PyStr(<<>>),
     PyStr(<<"9", ".", "8">>),
     PyStr(<<"9", ".", "0">>),
     PyStr(<<"8", ".", "9">>),
     PyStr(<<"7", ".", "0">>),
     PyStr(<<"6", ".", "9">>),
     PyStr(<<"4", ".", "0">>),
     PyStr(<<"3", ".", "9">>),
     PyStr(<<"0", ".", "0">>),
     PyStr(<<"0">>),
     PyStr(<<"1", "0">>),
     PyStr(<<" ", "7", ".", "5", " ">>),
     PyStr(<<"N", "/", "A">>),
     PyNum(98), PyNum(70), PyNum(39), PyNum(0)}

SeverityRecords ==
    LET base == [source |-> PyStr("nvd"), id |-> PyStr("CVE-1")]
        withSeverity == {base} \cup {base @@ ("severity" :> s) : s \in SeverityFields}
        metadatas == {<<>>} \cup {("cvss_score" :> c) : c \in CvssFields}
    IN  {r @@ ("metadata" :> m) : r \in withSeverity, m \in metadatas}
        \cup withSeverity

InitSeverity ==
    /\ arg \in SeverityRecords
    /\ nodes = <<>>
    /\ relationships = <<>>
    /\ file = Absent
    /\ tmp = Absent
    /\ ret = NoCall
    /\ hist = NoHist
    /\ pc = "idle"
    /\ DriverNotInstalled

\* Lines 802-836 of store_crawler_records run on the record.
severity_of_record ==
    /\ ret = NoCall
    /\ ret' = [op |-> "severity", value |-> Severity(arg)]
    /\ UNCHANGED <<nodes, relationships, file, tmp, arg, hist, pc>>
    /\ UNCHANGED live

NextSeverity == severity_of_record \/ Forget

SpecSeverity == InitSeverity /\ [][NextSeverity]_vars

\* The decision table of the severity, as claimed.
TableSeverity(record) ==
    LET severity == Get(record, "severity", PyNone)
        text == IF severity.t = "str" THEN Upper(severity.v) ELSE <<>>
        metadata == Get(record, "metadata", <<>>)
        scored == /\ "cvss_score" \in DOMAIN metadata
                  /\ ScoreFloat(metadata["cvss_score"]).ok
        tenths == ScoreFloat(metadata["cvss_score"]).tenths
    IN  IF Contains(text, CRITICAL) THEN "critical"
        ELSE IF Contains(text, HIGH) THEN "high"
        ELSE IF Contains(text, MEDIUM) THEN "medium"
        ELSE IF Contains(text, LOW) THEN "low"
        ELSE IF scored
        THEN IF tenths >= 90 THEN "critical"
             ELSE IF tenths >= 70 THEN "high"
             ELSE IF tenths >= 40 THEN "medium"
             ELSE "low"
        ELSE "medium"

\* C7: the severity computed for a record follows the decision table: the words
\* of the severity string in order, otherwise the cvss_score that parses as a
\* number (low for every score under 4.0, 0 included), otherwise medium.
C7_Claim ==
    ret.op = "severity" => ret.value = TableSeverity(arg)

\* C7 where it holds: every record whose cvss_score is not the number 0.
C7_ExceptZero ==
    (/\ ret.op = "severity"
     /\ Get(Get(arg, "metadata", <<>>), "cvss_score", PyNone) # PyNum(0))
    => ret.value = TableSeverity(arg)

-----------------------------------------------------------------------------
(* store_crawler_records: node type, node id, properties, the batch *)

\* The node type of a record's source.
NodeTypeOf(record) ==
    LET source == Get(record, "source", PyStr(""))
    IN  IF source \in {PyStr("nvd"), PyStr("cisa_kev"), PyStr("github_advisories")}
        THEN "CVE"
        ELSE IF source \in {PyStr("reddit_netsec"), PyStr("exploit_db")}
        THEN "ThreatIntelligence"
        ELSE IF source \in {PyStr("abuse_ch_urlhaus"), PyStr("abuse_ch_threatfox"),
                            PyStr("malwarebazaar")}
        THEN "malware"
        ELSE "Campaign"

\* str(v) inside an f-string
Format(v) ==
    CASE v.t = "str" -> v.v
      [] v.t = "none" -> "None"
      [] OTHER -> ToString(v.v)

\* node_id = f"{record.get('source', 'unknown')}:{record.get('id', 'unknown')}"
NodeIdOf(record) ==
    Format(Get(record, "source", PyStr("unknown"))) \o ":"
        \o Format(Get(record, "id", PyStr("unknown")))

\* str(cvss_val) as characters: a string is itself, a number (kept in tenths) is
\* written with one decimal, None is "None".
StrChars(v) ==
    CASE v.t = "str" -> v.v
      [] v.t = "num" ->
           (IF v.v \div 10 >= 10 THEN <<Digits[(v.v \div 100) + 1]>> ELSE <<>>)
           \o <<Digits[((v.v \div 10) % 10) + 1], ".", Digits[(v.v % 10) + 1]>>
      [] OTHER -> <<"N", "o", "n", "e">>

\* Lines 839-869: the properties of the node of a record.
PropertiesOf(record, severity) ==
    LET properties ==
            [name |-> Get(record, "title", Get(record, "id", PyStr("Unknown"))),
             description |-> Get(record, "summary", PyStr("")),
             severity |-> PyStr(severity),
             discovered |-> Get(record, "published", PyNone),
             source |-> Get(record, "source", PyStr("unknown")),
             url |-> Get(record, "url", PyStr("")),
             status |-> Get(record, "status", PyNone)]
        metadata == Get(record, "metadata", <<>>)
        cvss_val == Get(metadata, "cvss_score", PyNone)
        with_cvss ==
            IF /\ "cvss_score" \in DOMAIN metadata
               /\ Truthy(cvss_val)
               /\ Strip(StrChars(cvss_val)) # <<>>
               /\ StrChars(cvss_val) # <<"N", "o", "n", "e">>
            THEN Update(properties, [cvss_score |-> PyStr(Strip(StrChars(cvss_val)))])
            ELSE properties
    IN  IF DOMAIN metadata # {} THEN Update(with_cvss, metadata) ELSE properties

\* One turn of the loop over the records: the node is built and stored, and
\* counted as new when get_node found none.
StoreRecord(acc, record) ==
    LET node_id == NodeIdOf(record)
        is_new == ~GetNode(acc.nodes, node_id).some
        node == ThreatNode(node_id, NodeTypeOf(record),
                           PropertiesOf(record, Severity(record)))
    IN  [acc EXCEPT
            !.nodes = CreateNode(acc.nodes, node),
            !.new_count = IF is_new THEN @ + 1 ELSE @,
            !.updated_count = IF is_new THEN @ ELSE @ + 1]

RECURSIVE StoreRecords(_, _)
StoreRecords(acc, records) ==
    IF records = <<>> THEN acc
    ELSE StoreRecords(StoreRecord(acc, Head(records)), Tail(records))

\* connector._save_persistent_data() inside store_crawler_records.  writes: one
\* entry per write of the snapshot file, the number of records stored before it.
ConnectorSave(acc) ==
    [acc EXCEPT
        !.file = SavePersistentData(acc.nodes, acc.relationships, acc.file),
        !.writes = Append(@, acc.new_count + acc.updated_count)]

\* connector.close() in simulation mode: no driver, then _save_persistent_data.
ConnectorClose(acc) == ConnectorSave(acc)

\* store_crawler_records(records) in simulation mode: a connector is built on the
\* snapshot file, the batch is stored, _save_persistent_data is called, and
\* close saves once more.
StoreCrawlerRecords(records, f) ==
    LET loaded == LoadPersistentData(f)
        connector == [nodes |-> loaded.nodes, relationships |-> loaded.relationships,
                      file |-> f, writes |-> <<>>, new_count |-> 0,
                      updated_count |-> 0]
        done == StoreRecords(connector, records)
        saved == ConnectorSave(done)
        closed == ConnectorClose(saved)
    IN  [file |-> closed.file, value |-> closed.new_count, writes |-> closed.writes]

-----------------------------------------------------------------------------
(* Specification SpecIngest: batches stored over one snapshot file *)

\* The longest batch handed to store_crawler_records.
MaxBatch == 2

IngestRecords ==
    {[source |-> PyStr("nvd"), id |-> PyStr("CVE-1"), title |-> PyStr("first"),
      severity |-> PyStr(<<"H", "i", "g", "h">>)],
     [source |-> PyStr("nvd"), id |-> PyStr("CVE-1"), title |-> PyStr("second"),
      summary |-> PyStr("updated"),
      metadata |-> [cvss_score |-> PyStr(<<"9", ".", "8">>)]],
     [source |-> PyStr("malwarebazaar"), id |-> PyStr("m1"),
      metadata |-> [ai_risk_score |-> PyNum(70)]],
     [source |-> PyStr("blog"), id |-> PyStr("CVE-1"), title |-> PyStr("first")]}

Batches == UNION {[1..k -> IngestRecords] : k \in 0..MaxBatch}

BatchKeys(records) == {NodeIdOf(records[i]) : i \in DOMAIN records}

\* The node entries of the snapshot file with the given id.
FileNodes(f, id) ==
    IF ~f.exists THEN <<>>
    ELSE SelectSeq(f.text, LAMBDA c : c.kind = "node" /\ c.obj.node_id = id)

\* hist.repeated: the node ids of the last batch that the batch before it held too.
\* hist.old: for a batch of one record, the node entries the snapshot file held
\* under the record's node id when the call began.
InitIngest ==
    /\ file \in InitFiles
    /\ nodes = <<>>
    /\ relationships = <<>>
    /\ tmp = Absent
    /\ arg = NoCall
    /\ ret = NoCall
    /\ hist = [repeated |-> {}, old |-> <<>>]
    /\ pc = "idle"
    /\ DriverNotInstalled

store_crawler_records(records) ==
    /\ LET out == StoreCrawlerRecords(records, file)
       IN  /\ file' = out.file
           /\ ret' = [op |-> "store_crawler_records", records |-> records,
                      value |-> out.value, writes |-> out.writes]
    /\ hist' = [repeated |->
                  IF ret.op = "store_crawler_records"
                  THEN BatchKeys(records) \cap BatchKeys(ret.records)
                  ELSE {},
                old |->
                  IF Len(records) = 1
                  THEN FileNodes(file, NodeIdOf(records[1]))
                  ELSE <<>>]
    /\ UNCHANGED <<nodes, relationships, tmp, arg, pc>>
    /\ UNCHANGED live

NextIngest == \E records \in Batches : store_crawler_records(records)

SpecIngest == InitIngest /\ [][NextIngest]_vars

RepeatedRecord ==
    /\ ret.op = "store_crawler_records"
    /\ Len(ret.records) = 1
    /\ NodeIdOf(ret.records[1]) \in hist.repeated

\* C1: a second store_crawler_records call with a record of the same source and
\* id, each call on a fresh store over the same snapshot file, leaves exactly
\* one node of that id, returns 0, and the node has the properties computed from
\* the second call's record.
C1_IdempotentUpsert ==
    RepeatedRecord =>
        LET record == ret.records[1]
            stored == FileNodes(file, NodeIdOf(record))
        IN  /\ ret.value = 0
            /\ Len(stored) = 1
            /\ stored[1].obj.properties = PropertiesOf(record, Severity(record))
            /\ ("title" \in DOMAIN record =>
                  stored[1].obj.properties["name"] = record["title"])
            /\ Len(LoadPersistentData(file).nodes) = Cardinality(NodeKeys(LoadPersistentData(file).nodes))

\* The second call stored the record titled "second" over the node that the
\* call before had made from another record of the same source and id.
C1_Witness ==
    /\ RepeatedRecord
    /\ Get(ret.records[1], "title", PyNone) = PyStr("second")
    /\ ret.value = 0
    /\ Len(FileNodes(file, "nvd:CVE-1")) = 1

-----------------------------------------------------------------------------
(* Specification SpecCrash: _save_persistent_data step by step, with crashes *)

\* open(...) called on the snapshot path itself: the snapshot is truncated.
OpenInPlace(t, f) == [tmp |-> t, file |-> FileOf(<<>>)]

\* with open(temp_file, 'w'): the temporary file is created or truncated.
OpenTemp(t, f) == [tmp |-> FileOf(<<>>), file |-> f]

\* temp_file.replace(self.persistence_file): one atomic rename.
Replace(t, f) == [tmp |-> Absent, file |-> t]

\* The relationships created between the saves.
CrashRels == {ThreatRelationship("A", "B", "USES", [confidence |-> "0.9"])}

\* What the snapshot path holds when the process starts: nothing or a snapshot.
InitCrash ==
    /\ file \in {Absent, EarlierSnapshot}
    /\ nodes = LoadPersistentData(file).nodes
    /\ relationships = LoadPersistentData(file).relationships
    /\ tmp = Absent
    /\ arg = NoCall
    /\ ret = [op |-> "__init__"]
    /\ hist = [cleared |-> FALSE, saved |-> NoCall]
    /\ pc = "idle"
    /\ DriverNotInstalled

\* _save_persistent_data is entered: the directory is made and data is built.
\* arg holds the save under way: the document to write and the snapshot in place.
save_begin ==
    /\ pc = "idle"
    /\ pc' = "open"
    /\ arg' = [op |-> "save", data |-> SaveText(nodes, relationships, file),
               previous |-> file]
    /\ UNCHANGED <<nodes, relationships, file, tmp, ret, hist>>
    /\ UNCHANGED live

save_open ==
    /\ pc = "open"
    /\ tmp' = OpenTemp(tmp, file).tmp
    /\ file' = OpenTemp(tmp, file).file
    /\ pc' = "dump"
    /\ UNCHANGED <<nodes, relationships, arg, ret, hist>>
    /\ UNCHANGED live

\* json.dump writes the next chunk of the document to the temporary file.
save_write ==
    /\ pc = "dump"
    /\ Len(tmp.text) < Len(arg.data)
    /\ tmp' = FileOf(Append(tmp.text, arg.data[Len(tmp.text) + 1]))
    /\ UNCHANGED <<nodes, relationships, file, arg, ret, hist, pc>>
    /\ UNCHANGED live

\* The with block ends: the temporary file is complete and closed.
save_written ==
    /\ pc = "dump"
    /\ Len(tmp.text) >= Len(arg.data)
    /\ pc' = "replace"
    /\ UNCHANGED <<nodes, relationships, file, tmp, arg, ret, hist>>
    /\ UNCHANGED live

save_replace ==
    /\ pc = "replace"
    /\ tmp' = Replace(tmp, file).tmp
    /\ file' = Replace(tmp, file).file
    /\ pc' = "idle"
    /\ ret' = [op |-> "_save_persistent_data"]
    /\ arg' = NoCall
    /\ UNCHANGED <<nodes, relationships, hist>>
    /\ UNCHANGED live

\* The process dies: its collections are gone, the files stay as they are.
crash ==
    /\ pc # "crashed"
    /\ pc' = "crashed"
    /\ nodes' = <<>>
    /\ relationships' = <<>>
    /\ ret' = NoCall
    /\ UNCHANGED <<file, tmp, arg, hist>>
    /\ UNCHANGED live

\* A new process constructs its store on the same path.
restart ==
    /\ pc = "crashed"
    /\ pc' = "idle"
    /\ nodes' = LoadPersistentData(file).nodes
    /\ relationships' = LoadPersistentData(file).relationships
    /\ ret' = [op |-> "__init__"]
    /\ arg' = NoCall
    /\ UNCHANGED <<file, tmp, hist>>
    /\ UNCHANGED live

NextCrash ==
    \/ pc = "idle" /\ \E node \in StoreNodes : create_node(node)
    \/ pc = "idle" /\ \E rel \in CrashRels : create_relationship(rel)
    \/ save_begin
    \/ save_open
    \/ save_write
    \/ save_written
    \/ save_replace
    \/ crash
    \/ restart

SpecCrash == InitCrash /\ [][NextCrash]_vars

\* C6: whatever step of _save_persistent_data a crash hits, the snapshot file is
\* at every moment absent, the complete previous snapshot or the complete new
\* one, never a partially written document.
C6_SnapshotWhole ==
    /\ file.exists => JsonValid(file.text)
    /\ arg.op = "save" => (file = arg.previous \/ file = FileOf(arg.data))

\* A crash while the temporary file held a part of a new document that differs
\* from the snapshot in place.
C6_Witness ==
    /\ pc = "crashed"
    /\ arg.op = "save"
    /\ tmp.exists
    /\ Len(tmp.text) >= 2
    /\ Len(tmp.text) < Len(arg.data)
    /\ file = arg.previous
    /\ file.exists
    /\ file # FileOf(arg.data)

-----------------------------------------------------------------------------
(* find_related_nodes and max_depth (SpecRelated) *)

\* The ids one matching relationship away from an id of the set S.
StepFrom(S, r) ==
    {relationships[i].target_id : i \in
        {j \in DOMAIN relationships :
            /\ relationships[j].source_id \in S
            /\ (r.some => relationships[j].relationship_type = r.v)}}

\* The ids reached from n by 1 to d matching relationships.
RECURSIVE ReachedWithin(_, _, _)
ReachedWithin(n, r, d) ==
    IF d = 0 THEN {}
    ELSE LET near == ReachedWithin(n, r, d - 1)
         IN  near \cup StepFrom({n} \cup near, r)

\* C11: find_related_nodes(n, r, d) with d >= 1 returns each node reached from n
\* by 1 to d matching relationships exactly once: no node twice, never the start
\* node, the nodes first reached at hop 2..d included.
C11_Claim ==
    (ret.op = "find_related_nodes" /\ ret.max_depth >= 1) =>
        /\ \A i, j \in DOMAIN ret.value : i # j => ret.value[i] # ret.value[j]
        /\ ReturnedIds =
             (ReachedWithin(ret.node_id, ret.relationship_type, ret.max_depth)
                 \cap NodeKeys(nodes)) \ {ret.node_id}

-----------------------------------------------------------------------------
(* store_crawler_records: what an upsert does to the node it finds (SpecIngest) *)

\* A batch of one record whose node id had a node when the call began.
UpsertOfExisting ==
    /\ ret.op = "store_crawler_records"
    /\ Len(ret.records) = 1
    /\ hist.old # <<>>

\* C12: an upsert of a record whose composite key already has a node leaves the
\* old properties merged with the new ones: every key of the newly computed
\* properties has the new value and every key only the old properties had keeps
\* its old value.
C12_Claim ==
    UpsertOfExisting =>
        LET record == ret.records[1]
            old == hist.old[1].obj.properties
            new == PropertiesOf(record, Severity(record))
            stored == FileNodes(file, NodeIdOf(record))[1].obj.properties
        IN  /\ \A k \in DOMAIN new : k \in DOMAIN stored /\ stored[k] = new[k]
            /\ \A k \in DOMAIN old \ DOMAIN new :
                 k \in DOMAIN stored /\ stored[k] = old[k]

\* C13: one store_crawler_records call, whatever the size of its batch, writes
\* the snapshot file exactly once, after the last record was stored.
C13_Claim ==
    ret.op = "store_crawler_records" => ret.writes = <<Len(ret.records)>>

-----------------------------------------------------------------------------
(* Specification SpecKeys: the node ids of two records *)

KeySources == {"unknown", "a", "a:b"}
KeyIds == {"unknown", "c", "b:c"}

\* Records with or without a source and with or without an id.
KeyRecords ==
    {[source |-> PyStr(s), id |-> PyStr(i)] : s \in KeySources, i \in KeyIds}
    \cup {[source |-> PyStr(s)] : s \in KeySources}
    \cup {[id |-> PyStr(i)] : i \in KeyIds}
    \cup {<<>>}

InitKeys ==
    /\ nodes = <<>>
    /\ relationships = <<>>
    /\ file = Absent
    /\ tmp = Absent
    /\ arg = NoCall
    /\ ret = NoCall
    /\ hist = NoHist
    /\ pc = "idle"
    /\ DriverNotInstalled

\* The node ids store_crawler_records builds for two records of a batch.
node_id_of(first, second) ==
    /\ ret = NoCall
    /\ arg' = <<first, second>>
    /\ ret' = [op |-> "node_id", value |-> <<NodeIdOf(first), NodeIdOf(second)>>]
    /\ UNCHANGED <<nodes, relationships, file, tmp, hist, pc>>
    /\ UNCHANGED live

\* The next two records are looked at.
ForgetKeys ==
    /\ ret # NoCall
    /\ ret' = NoCall
    /\ arg' = NoCall
    /\ UNCHANGED <<nodes, relationships, file, tmp, hist, pc>>
    /\ UNCHANGED live

NextKeys ==
    \/ \E first \in KeyRecords, second \in KeyRecords : node_id_of(first, second)
    \/ ForgetKeys

SpecKeys == InitKeys /\ [][NextKeys]_vars

\* C14: two records that differ in source or in id, a missing field differing
\* from every present one, never get the same node id.
C14_Claim ==
    ret.op = "node_id" =>
        ((\/ Get(arg[1], "source", PyNone) # Get(arg[2], "source", PyNone)
          \/ Get(arg[1], "id", PyNone) # Get(arg[2], "id", PyNone))
         => ret.value[1] # ret.value[2])

\* C14 for records that have both fields: the case of ':' inside source or id.
C14_ColonClaim ==
    (/\ ret.op = "node_id"
     /\ {"source", "id"} \subseteq DOMAIN arg[1]
     /\ {"source", "id"} \subseteq DOMAIN arg[2]
     /\ arg[1] # arg[2])
    => ret.value[1] # ret.value[2]

-----------------------------------------------------------------------------
(* Specification SpecLive: one store after another over one snapshot path and *)
(* one server, in whichever mode its constructor chose, with queries that    *)
(* may fail                                                                   *)

LiveNodes ==
    {ThreatNode("A", "Malware", [name |-> "Emotet"]),
     ThreatNode("", "Malware", [name |-> "Emotet"])}

LiveRels == {ThreatRelationship("A", "", "USES", [confidence |-> "0.9"])}

LiveIds == {"A"}

\* The first store is constructed over an absent or an earlier snapshot, with
\* every outcome of the probe.
InitLive ==
    /\ file \in {Absent, EarlierSnapshot}
    /\ backend = EmptyBackend
    /\ \E probe \in Probes :
         LET fields == InitFields(probe)
             loaded == InitCollections(fields, file)
         IN  /\ simulation_mode = fields.simulation_mode
             /\ driver = fields.driver
             /\ connected = fields.connected
             /\ nodes = loaded.nodes
             /\ relationships = loaded.relationships
             /\ ret = [op |-> "__init__", probe |-> probe, raised |-> fields.raised]
    /\ tmp = Absent
    /\ arg = NoCall
    /\ hist = NoHist
    /\ pc = "idle"

NextLive ==
    \/ \E probe \in Probes : Construct(probe)
    \/ \E node \in LiveNodes : create_node(node)
    \/ \E rel \in LiveRels : create_relationship(rel)
    \/ \E id \in LiveIds : get_node(id)
    \/ \E id \in LiveIds, d \in 1..MaxDepth : find_related_nodes(id, NoneArg, d)
    \/ \E s \in LiveIds, t \in LiveIds \cup {""} : find_attack_paths(s, t, MaxLength)
    \/ get_threat_statistics
    \/ clear_database
    \/ save_persistent_data("ok")
    \/ close("ok")
    \/ Forget

SpecLive == InitLive /\ [][NextLive]_vars

\* C15: in embedded mode and in live mode alike, the store holds at most one
\* node per node id, whatever create_node calls were made.
C15_Claim ==
    /\ \A i, j \in DOMAIN nodes : i # j => nodes[i].node_id # nodes[j].node_id
    /\ \A i, j \in DOMAIN backend.nodes :
         i # j => backend.nodes[i].props["node_id"] # backend.nodes[j].props["node_id"]

\* C16: no operation after the constructor changes simulation_mode, a failed
\* backend query and close included.
C16_ModeFixed ==
    [][ret'.op # "__init__" => simulation_mode' = simulation_mode]_vars

\* A live store whose driver was closed and whose next query failed.
C16_Witness ==
    /\ ~simulation_mode
    /\ driver
    /\ ~connected
    /\ ret.op = "create_node"
    /\ ret.query_failed

\* C17: when the driver is not installed or the probe raises, the constructor
\* returns normally with the store in embedded mode and the snapshot loaded.
C17_ConstructorFallsBack ==
    (ret.op = "__init__" /\ ret.probe # "ok") =>
        /\ ret.raised = "none"
        /\ simulation_mode
        /\ nodes = LoadPersistentData(file).nodes
        /\ relationships = LoadPersistentData(file).relationships

\* A store constructed over a snapshot while the probe query raised an exception
\* that is neither ServiceUnavailable nor AuthError, on a server that holds nodes.
C17_Witness ==
    /\ ret.op = "__init__"
    /\ ret.probe = "error"
    /\ driver
    /\ nodes # <<>>
    /\ backend.nodes # <<>>

QueryOps ==
    {"create_node", "create_relationship", "find_related_nodes",
     "find_attack_paths", "get_threat_statistics", "clear_database"}

\* C19: in live mode an operation whose backend query fails raises BackendError
\* to its caller: it returns neither an empty result nor a status.
C19_Claim ==
    (/\ ret.op \in QueryOps
     /\ ~simulation_mode
     /\ ret.query_failed)
    => ret.raised = "BackendError"

\* C20: no node with an empty id or type and no relationship with an empty
\* source_id, target_id or type is ever in the node mapping, the relationship
\* sequence or the database.
C20_Claim ==
    /\ \A i \in DOMAIN nodes : nodes[i].node_id # "" /\ nodes[i].node_type # ""
    /\ \A i \in DOMAIN relationships :
         /\ relationships[i].source_id # ""
         /\ relationships[i].target_id # ""
         /\ relationships[i].relationship_type # ""
    /\ \A i \in DOMAIN backend.nodes :
         backend.nodes[i].props["node_id"] # "" /\ backend.nodes[i].label # ""

-----------------------------------------------------------------------------
(* Specification SpecDisk: one embedded store over a disk whose writes may fail *)

InitDisk ==
    /\ file \in {Absent, EarlierSnapshot}
    /\ nodes = LoadPersistentData(file).nodes
    /\ relationships = LoadPersistentData(file).relationships
    /\ tmp = Absent
    /\ arg = NoCall
    /\ ret = [op |-> "__init__", probe |-> "no_driver", raised |-> "none"]
    /\ hist = NoHist
    /\ pc = "idle"
    /\ DriverNotInstalled

NextDisk ==
    \/ Construct("no_driver")
    \/ \E node \in StoreNodes : create_node(node)
    \/ \E rel \in CrashRels : create_relationship(rel)
    \/ \E io \in IoOutcomes : save_persistent_data(io)
    \/ \E io \in IoOutcomes : close(io)

SpecDisk == InitDisk /\ [][NextDisk]_vars

\* C18: a write of the snapshot that fails raises PersistenceError to the caller
\* of _save_persistent_data and of close.
C18_Claim ==
    (ret.op \in {"_save_persistent_data", "close"} /\ ret.save_failed)
    => ret.raised = "PersistenceError"

-----------------------------------------------------------------------------
(* Specification SpecLoad: the embedded store over snapshot files of every kind *)

\* A complete document whose second node entry has no "node_type".
NodeFieldMissing ==
    FileOf(<<[kind |-> "open"],
             [kind |-> "node",
              obj |-> NodeJson(ThreatNode("B", "Malware", [name |-> "Emotet"]))],
             [kind |-> "node", obj |-> [node_id |-> "C"]],
             [kind |-> "rel",
              obj |-> RelJson(ThreatRelationship("B", "C", "USES", [confidence |-> "0.7"]))],
             [kind |-> "close"]>>)

\* A complete document whose second relationship entry has no "target_id".
RelFieldMissing ==
    FileOf(<<[kind |-> "open"],
             [kind |-> "node",
              obj |-> NodeJson(ThreatNode("B", "Malware", [name |-> "Emotet"]))],
             [kind |-> "rel",
              obj |-> RelJson(ThreatRelationship("B", "C", "USES", [confidence |-> "0.7"]))],
             [kind |-> "rel", obj |-> [source_id |-> "B", relationship_type |-> "USES"]],
             [kind |-> "close"]>>)

LoadFiles == InitFiles \cup {NodeFieldMissing, RelFieldMissing}

InitLoad ==
    /\ file \in LoadFiles
    /\ nodes = LoadPersistentData(file).nodes
    /\ relationships = LoadPersistentData(file).relationships
    /\ tmp = Absent
    /\ arg = NoCall
    /\ ret = [op |-> "__init__", probe |-> "no_driver", raised |-> "none"]
    /\ hist = [cleared |-> FALSE, saved |-> NoCall]
    /\ pc = "idle"
    /\ DriverNotInstalled

SpecLoad == InitLoad /\ [][Next]_vars

\* The load of a snapshot file raises: the document is not complete, or an entry
\* lacks a field the load reads with [].
LoadFails(f) ==
    /\ f.exists
    /\ \/ ~JsonValid(f.text)
       \/ \E i \in DOMAIN f.text :
            \/ /\ f.text[i].kind = "node"
               /\ ~({"node_id", "node_type"} \subseteq DOMAIN f.text[i].obj)
            \/ /\ f.text[i].kind = "rel"
               /\ ~({"source_id", "target_id", "relationship_type"}
                      \subseteq DOMAIN f.text[i].obj)

\* C21: a store constructed in embedded mode has empty collections when the
\* snapshot file is missing and when its load fails at any point.
C21_Claim ==
    (ret.op = "__init__" /\ simulation_mode /\ (~file.exists \/ LoadFails(file))) =>
        (nodes = <<>> /\ relationships = <<>> /\ ret.raised = "none")

-----------------------------------------------------------------------------
(* What the operations of the embedded store leave alone (Spec) *)

\* C22: the snapshot file changes only in a step of _save_persistent_data, close
\* or clear_database; create_node and create_relationship leave it as it is.
C22_FileFrame ==
    [][file' # file =>
         ret'.op \in {"_save_persistent_data", "close", "clear_database"}]_vars

\* A node was created in a store whose snapshot file exists and does not hold it.
C22_Witness ==
    /\ ret.op = "create_node"
    /\ file.exists
    /\ JsonValid(file.text)
    /\ NodeKeys(nodes) # NodeKeys(LoadPersistentData(file).nodes)

-----------------------------------------------------------------------------
(* Specification SpecOrder: find_attack_paths over graphs of four nodes *)

OrderIds == {"A", "B", "C", "D"}

\* Most relationships in a drawn graph, and the largest max_length asked for.
MaxOrderRels == 4
MaxOrderLength == 4

OrderEdges ==
    {<<"A", "B">>, <<"A", "C">>, <<"B", "C">>, <<"B", "D">>, <<"C", "D">>, <<"D", "A">>}

OrderRels ==
    {ThreatRelationship(e[1], e[2], "USES", [confidence |-> "0.9"]) : e \in OrderEdges}

OrderRelSeqs == UNION {[1..k -> OrderRels] : k \in 0..MaxOrderRels}

InitOrder ==
    /\ nodes = <<PathNode("A"), PathNode("B"), PathNode("C"), PathNode("D")>>
    /\ relationships \in OrderRelSeqs
    /\ file = Absent
    /\ tmp = Absent
    /\ arg = NoCall
    /\ ret = NoCall
    /\ hist = NoHist
    /\ pc = "idle"
    /\ DriverNotInstalled

NextOrder ==
    \/ \E t \in {"A", "C", "D"}, L \in 0..MaxOrderLength : find_attack_paths("A", t, L)
    \/ Forget

SpecOrder == InitOrder /\ [][NextOrder]_vars

\* Every simple directed path from the end of a path to t that has at most L
\* nodes, as the nodes it visits and the positions of the relationships it takes.
RECURSIVE SimplePathsFrom(_, _, _)
SimplePathsFrom(p, t, L) ==
    IF Len(p.nodes) > L THEN {}
    ELSE IF p.nodes[Len(p.nodes)] = t THEN {p}
    ELSE UNION {SimplePathsFrom([nodes |-> Append(p.nodes, relationships[j].target_id),
                                 rels |-> Append(p.rels, j)], t, L) :
                  j \in {k \in DOMAIN relationships :
                           /\ relationships[k].source_id = p.nodes[Len(p.nodes)]
                           /\ relationships[k].target_id \notin Range(p.nodes)}}

SimplePaths(s, t, L) == SimplePathsFrom([nodes |-> <<s>>, rels |-> <<>>], t, L)

\* Shorter paths first; among paths of one length, the one that takes the
\* earlier inserted relationship where the two first differ.
PathBefore(p, q) ==
    \/ Len(p.rels) < Len(q.rels)
    \/ /\ Len(p.rels) = Len(q.rels)
       /\ \E i \in DOMAIN p.rels :
            /\ p.rels[i] < q.rels[i]
            /\ \A j \in 1..(i - 1) : p.rels[j] = q.rels[j]

RECURSIVE InPathOrder(_)
InPathOrder(S) ==
    IF S = {} THEN <<>>
    ELSE LET first == CHOOSE p \in S : \A q \in S \ {p} : PathBefore(p, q)
         IN  <<first.nodes>> \o InPathOrder(S \ {first})

\* The relationships form the chain s -> ... -> t and nothing else.
IsChain(s, t) ==
    /\ \A i \in DOMAIN relationships :
         /\ relationships[i].source_id =
              (IF i = 1 THEN s ELSE relationships[i - 1].target_id)
         /\ \A j \in DOMAIN relationships :
              i <= j => relationships[j].target_id # relationships[i].source_id
    /\ t = (IF relationships = <<>> THEN s
            ELSE relationships[Len(relationships)].target_id)

ChainNodes(s) ==
    <<s>> \o [i \in DOMAIN relationships |-> relationships[i].target_id]

\* C23: when fewer than 10 paths qualify, the paths of at most L nodes that
\* find_attack_paths(s, t, L) returns are all the simple directed paths from s
\* to t of at most L nodes, shorter ones first and paths of one length in
\* relationship insertion order; a chain of k <= L nodes gives that one path.
C23_AllPathsInOrder ==
    (/\ ret.op = "find_attack_paths"
     /\ Cardinality(SimplePaths(ret.source_id, ret.target_id, ret.max_length)) < PathCap)
    =>
        /\ SelectSeq(ret.value, LAMBDA p : Len(p) <= ret.max_length)
             = InPathOrder(SimplePaths(ret.source_id, ret.target_id, ret.max_length))
        /\ \A i, j \in DOMAIN ret.value : i <= j => Len(ret.value[i]) <= Len(ret.value[j])
        /\ (/\ IsChain(ret.source_id, ret.target_id)
            /\ Len(relationships) + 1 <= ret.max_length)
           => ret.value = <<ChainNodes(ret.source_id)>>

\* Two paths of three nodes were returned, first the one through C, whose first
\* relationship was inserted before the first relationship of the one through B.
C23_Witness ==
    /\ ret.op = "find_attack_paths"
    /\ ret.value = <<<<"A", "C", "D">>, <<"A", "B", "D">>>>

\* The chain A -> B -> C -> D was searched with a max_length that admits it.
C23_ChainWitness ==
    /\ ret.op = "find_attack_paths"
    /\ IsChain("A", "D")
    /\ Len(relationships) = 3
    /\ ret.value = <<<<"A", "B", "C", "D">>>>

-----------------------------------------------------------------------------
(* Specification SpecCap: the while loop of find_attack_paths, one turn at a   *)
(* time, over graphs with parallel relationships, a cycle and a self-loop     *)

\* One turn of `while queue and len(paths) < 10`: the head of the queue is
\* popped and either recorded, dropped or extended.
PathStep(queue, paths, rs, target_id, max_length) ==
    LET path == Head(queue).path
        visited_in_path == Head(queue).visited
        rest == Tail(queue)
    IN  IF path[Len(path)] = target_id
        THEN [queue |-> rest, paths |-> Append(paths, path)]
        ELSE IF Len(path) >= max_length
        THEN [queue |-> rest, paths |-> paths]
        ELSE [queue |-> rest \o Extensions(path, visited_in_path, rs), paths |-> paths]

\* The loop condition with an off-by-one test: an eleventh path is collected.
PathLoopContinuesPastCap(queue, paths) == queue # <<>> /\ Len(paths) <= PathCap

\* The loop condition.
PathLoopContinues(queue, paths) == queue # <<>> /\ Len(paths) < PathCap

\* Most relationships in a drawn graph.
MaxCapRels == 7

\* Longest max_length asked for.
MaxCapLength == 3

CapEdges == {<<"A", "B">>, <<"B", "C">>, <<"B", "A">>, <<"B", "B">>}

CapRels ==
    {ThreatRelationship(e[1], e[2], "USES", [confidence |-> "0.9"]) : e \in CapEdges}

CapRelSeqs == UNION {[1..k -> CapRels] : k \in 0..MaxCapRels}

InitCap ==
    /\ nodes = <<PathNode("A"), PathNode("B"), PathNode("C")>>
    /\ relationships \in CapRelSeqs
    /\ file = Absent
    /\ tmp = Absent
    /\ arg = NoCall
    /\ ret = NoCall
    /\ hist = NoHist
    /\ pc = "idle"
    /\ DriverNotInstalled

\* find_attack_paths is entered in simulation mode: lines 326-328.
paths_begin(source_id, target_id, max_length) ==
    /\ pc = "idle"
    /\ ret = NoCall
    /\ simulation_mode
    /\ pc' = "while"
    /\ arg' = [op |-> "find_attack_paths", source_id |-> source_id,
               target_id |-> target_id, max_length |-> max_length,
               queue |-> <<[path |-> <<source_id>>, visited |-> {source_id}]>>,
               paths |-> <<>>]
    /\ UNCHANGED <<nodes, relationships, file, tmp, ret, hist>>
    /\ UNCHANGED live

\* One turn of the loop.
paths_iterate ==
    /\ pc = "while"
    /\ PathLoopContinues(arg.queue, arg.paths)
    /\ LET next == PathStep(arg.queue, arg.paths, relationships, arg.target_id,
                            arg.max_length)
       IN  arg' = [arg EXCEPT !.queue = next.queue, !.paths = next.paths]
    /\ UNCHANGED <<nodes, relationships, file, tmp, ret, hist, pc>>
    /\ UNCHANGED live

\* The loop condition is false: return paths.  ret.queue keeps what the queue
\* still held.
paths_return ==
    /\ pc = "while"
    /\ ~PathLoopContinues(arg.queue, arg.paths)
    /\ pc' = "idle"
    /\ ret' = [op |-> "find_attack_paths", source_id |-> arg.source_id,
               target_id |-> arg.target_id, max_length |-> arg.max_length,
               value |-> arg.paths, queue |-> arg.queue]
    /\ arg' = NoCall
    /\ UNCHANGED <<nodes, relationships, file, tmp, hist>>
    /\ UNCHANGED live

NextCap ==
    \/ \E t \in {"A", "C"}, L \in 0..MaxCapLength : paths_begin("A", t, L)
    \/ paths_iterate
    \/ paths_return

\* The loop is sequential code: a turn that can be taken is taken.
SpecCap ==
    /\ InitCap
    /\ [][NextCap]_vars
    /\ WF_vars(paths_iterate)
    /\ WF_vars(paths_return)

\* C24: the loop of find_attack_paths terminates, it stops with an empty queue
\* or with exactly 10 paths, and it never holds more than 10 paths.
C24_LoopStops ==
    /\ [](pc = "while" => Len(arg.paths) <= PathCap)
    /\ [](ret.op = "find_attack_paths" =>
            /\ Len(ret.value) <= PathCap
            /\ (ret.queue = <<>> \/ Len(ret.value) = PathCap)
            /\ ret.value = FindAttackPaths(relationships, ret.source_id,
                                           ret.target_id, ret.max_length))
    /\ (pc = "while" ~> ret.op = "find_attack_paths")

\* The loop stopped at 10 paths with paths still waiting in the queue.
C24_Witness ==
    /\ ret.op = "find_attack_paths"
    /\ Len(ret.value) = PathCap
    /\ ret.queue # <<>>


\* The operations that only read.
ReadOps == {"get_node", "find_related_nodes", "find_attack_paths", "get_threat_statistics"}

\* C25: in embedded mode get_node, find_related_nodes, find_attack_paths and
\* get_threat_statistics leave nodes, relationships and the snapshot file as
\* they were, and the value each returned is the value the same call returns
\* for as long as no other operation has been called.
C25_QueriesReadOnly ==
    /\ [][(simulation_mode /\ ret'.op \in ReadOps) =>
            (nodes' = nodes /\ relationships' = relationships /\ file' = file)]_vars
    /\ [](simulation_mode =>
            /\ ret.op = "get_node" => ret.value = GetNode(nodes, ret.node_id)
            /\ ret.op = "find_related_nodes" =>
                 ret.value = FindRelatedNodes(nodes, relationships, ret.node_id,
                                              ret.relationship_type, ret.max_depth)
            /\ ret.op = "find_attack_paths" =>
                 ret.value = FindAttackPaths(relationships, ret.source_id,
                                             ret.target_id, ret.max_length)
            /\ ret.op = "get_threat_statistics" =>
                 ret.value = GetThreatStatistics(nodes, relationships))

\* get_node found a node of a store whose snapshot has not been written.
C25_Witness ==
    /\ simulation_mode
    /\ ret.op = "get_node"
    /\ ret.value # NoneArg
    /\ ~file.exists

-----------------------------------------------------------------------------
(* Specification SpecRace: a read-only API call and store_crawler_records,    *)
(* each with a connector of its own over the one snapshot path, interleaved   *)
(* at their constructor, save and close steps                                 *)

\* The API functions that construct a connector, read self.nodes and close it.
ReadApis ==
    {"query_threats_api", "export_all_threats_api", "get_threat_by_id_api",
     "search_threats_api"}

\* The records the crawlers hand over while the API is being read.
RaceRecords ==
    {[source |-> PyStr("nvd"), id |-> PyStr("CVE-1"), title |-> PyStr("first")],
     [source |-> PyStr("malwarebazaar"), id |-> PyStr("m1")]}

RaceBatches == UNION {[1..k -> RaceRecords] : k \in 0..MaxBatch}

\* nodes and relationships are the collections of the API call's connector and
\* pc names the API call between its constructor and its close.  arg holds the
\* connector of store_crawler_records and the step it has reached.
\* hist.completed: the node ids of the batches of the calls that have returned.
InitRace ==
    /\ file \in {Absent, EarlierSnapshot}
    /\ nodes = <<>>
    /\ relationships = <<>>
    /\ tmp = Absent
    /\ arg = NoCall
    /\ ret = NoCall
    /\ hist = [completed |-> {}]
    /\ pc = "idle"
    /\ DriverNotInstalled

\* connector = Neo4jConnector() of a read-only API function.
api_construct(api) ==
    /\ pc = "idle"
    /\ pc' = api
    /\ LET loaded == LoadPersistentData(file)
       IN  /\ nodes' = loaded.nodes
           /\ relationships' = loaded.relationships
    /\ UNCHANGED <<file, tmp, arg, ret, hist>>
    /\ UNCHANGED live

\* connector.close() of the API function, which saves what its constructor loaded.
api_close ==
    /\ pc \in ReadApis
    /\ pc' = "idle"
    /\ file' = SavePersistentData(nodes, relationships, file)
    /\ ret' = [op |-> pc]
    /\ nodes' = <<>>
    /\ relationships' = <<>>
    /\ UNCHANGED <<tmp, arg, hist>>
    /\ UNCHANGED live

\* connector = Neo4jConnector() of store_crawler_records: line 779.
ingest_construct(records) ==
    /\ arg = NoCall
    /\ LET loaded == LoadPersistentData(file)
       IN  arg' = [op |-> "store_crawler_records", at |-> "constructed",
                   records |-> records,
                   connector |-> [nodes |-> loaded.nodes,
                                  relationships |-> loaded.relationships,
                                  file |-> file, writes |-> <<>>, new_count |-> 0,
                                  updated_count |-> 0]]
    /\ UNCHANGED <<nodes, relationships, file, tmp, ret, hist, pc>>
    /\ UNCHANGED live

\* The loop over the records and _save_persistent_data: lines 784-886.
ingest_save ==
    /\ arg.op = "store_crawler_records"
    /\ arg.at = "constructed"
    /\ LET done == StoreRecords(arg.connector, arg.records)
           saved == ConnectorSave([done EXCEPT !.file = file])
       IN  /\ file' = saved.file
           /\ arg' = [arg EXCEPT !.at = "saved", !.connector = saved]
    /\ UNCHANGED <<nodes, relationships, tmp, ret, hist, pc>>
    /\ UNCHANGED live

\* connector.close() and the return: lines 888-894.
ingest_close ==
    /\ arg.op = "store_crawler_records"
    /\ arg.at = "saved"
    /\ LET closed == ConnectorClose([arg.connector EXCEPT !.file = file])
       IN  /\ file' = closed.file
           /\ ret' = [op |-> "store_crawler_records", value |-> closed.new_count]
    /\ hist' = [completed |-> hist.completed \cup BatchKeys(arg.records)]
    /\ arg' = NoCall
    /\ UNCHANGED <<nodes, relationships, tmp, pc>>
    /\ UNCHANGED live

NextRace ==
    \/ \E api \in ReadApis : api_construct(api)
    \/ api_close
    \/ \E records \in RaceBatches : ingest_construct(records)
    \/ ingest_save
    \/ ingest_close

SpecRace == InitRace /\ [][NextRace]_vars

\* C26: when a read-only API call has closed its store, every node that a
\* completed store_crawler_records call wrote is still in the snapshot,
\* whatever the interleaving of the two calls.
C26_Claim ==
    ret.op \in ReadApis =>
        hist.completed \subseteq NodeKeys(LoadPersistentData(file).nodes)

-----------------------------------------------------------------------------
(* Specification SpecTwoSaves: two stores over one snapshot path, each inside *)
(* _save_persistent_data, interleaved at their open, write and rename steps   *)

\* The stores.
Instances == {1, 2}

\* What a store may hold when it saves.
TwoSavesNodes ==
    {<<>>,
     <<ThreatNode("A", "ThreatActor", [name |-> "APT29"])>>,
     <<ThreatNode("A", "ThreatActor", [name |-> "APT29"]),
       ThreatNode("B", "Malware", [name |-> "Emotet"])>>}

\* Bytes never written, which read as NUL: a write beyond the end of a file
\* that another open(..., 'w') has truncated.
Hole == [kind |-> "hole"]

\* f.write at offset k of an open file.
WriteAt(f, k, chunk) ==
    LET padded == IF Len(f.text) < k
                  THEN f.text \o [j \in 1..(k - Len(f.text)) |-> Hole]
                  ELSE f.text
        n == IF Len(padded) > k + 1 THEN Len(padded) ELSE k + 1
    IN  FileOf([j \in 1..n |-> IF j = k + 1 THEN chunk ELSE padded[j]])

\* Where the file a store opened is after a rename of the temporary path by
\* another store: the temporary file is now the snapshot, and the snapshot it
\* replaced has no name left.
AfterRename(fd) ==
    CASE fd = "tmp" -> "file"
      [] fd = "file" -> "gone"
      [] OTHER -> fd

\* arg.inst[i] is store i: its collections, its position inside
\* _save_persistent_data (at), the document it is writing (data), the file its
\* open handle refers to (fd) and the offset of the handle.
\* hist.initial: the snapshot in place before any save.
InitTwoSaves ==
    /\ file \in {Absent, EarlierSnapshot}
    /\ hist = [initial |-> file]
    /\ nodes = <<>>
    /\ relationships = <<>>
    /\ tmp = Absent
    /\ \E n1 \in TwoSavesNodes, n2 \in TwoSavesNodes :
         /\ n1 # n2
         /\ arg = [op |-> "saves",
                   inst |-> [i \in Instances |->
                               [nodes |-> IF i = 1 THEN n1 ELSE n2,
                                relationships |-> <<>>, at |-> "idle",
                                data |-> <<>>, fd |-> "none", offset |-> 0]]]
    /\ ret = NoCall
    /\ pc = "idle"
    /\ DriverNotInstalled

\* Store i enters _save_persistent_data and builds data: lines 96-119.
two_begin(i) ==
    /\ arg.inst[i].at = "idle"
    /\ arg' = [arg EXCEPT !.inst[i].at = "open",
                          !.inst[i].data = SaveText(arg.inst[i].nodes,
                                                    arg.inst[i].relationships, file)]
    /\ UNCHANGED <<nodes, relationships, file, tmp, ret, hist, pc>>
    /\ UNCHANGED live

\* with open(temp_file, 'w'): the one temporary path is created or truncated.
two_open(i) ==
    /\ arg.inst[i].at = "open"
    /\ tmp' = OpenTemp(tmp, file).tmp
    /\ arg' = [arg EXCEPT !.inst[i].at = "dump", !.inst[i].fd = "tmp",
                          !.inst[i].offset = 0]
    /\ UNCHANGED <<nodes, relationships, file, ret, hist, pc>>
    /\ UNCHANGED live

\* json.dump of store i writes its next chunk at the offset of its own handle,
\* into whatever file the handle refers to by now.
two_write(i) ==
    LET me == arg.inst[i]
        chunk == me.data[me.offset + 1]
    IN  /\ me.at = "dump"
        /\ me.offset < Len(me.data)
        /\ tmp' = IF me.fd = "tmp" THEN WriteAt(tmp, me.offset, chunk) ELSE tmp
        /\ file' = IF me.fd = "file" THEN WriteAt(file, me.offset, chunk) ELSE file
        /\ arg' = [arg EXCEPT !.inst[i].offset = @ + 1]
        /\ UNCHANGED <<nodes, relationships, ret, hist, pc>>
        /\ UNCHANGED live

\* The with block of store i ends: its handle is closed.
two_written(i) ==
    /\ arg.inst[i].at = "dump"
    /\ arg.inst[i].offset >= Len(arg.inst[i].data)
    /\ arg' = [arg EXCEPT !.inst[i].at = "replace", !.inst[i].fd = "none"]
    /\ UNCHANGED <<nodes, relationships, file, tmp, ret, hist, pc>>
    /\ UNCHANGED live

\* temp_file.replace(self.persistence_file) of store i.  When the other store
\* has renamed the temporary file away, it raises FileNotFoundError, which the
\* except clause of line 129 logs.
two_replace(i) ==
    /\ arg.inst[i].at = "replace"
    /\ IF tmp.exists
       THEN /\ tmp' = Replace(tmp, file).tmp
            /\ file' = Replace(tmp, file).file
            /\ arg' = [arg EXCEPT
                         !.inst = [j \in Instances |->
                                     IF j = i THEN [arg.inst[j] EXCEPT !.at = "idle"]
                                     ELSE [arg.inst[j] EXCEPT !.fd = AfterRename(@)]]]
       ELSE /\ arg' = [arg EXCEPT !.inst[i].at = "idle"]
            /\ UNCHANGED <<file, tmp>>
    /\ ret' = [op |-> "_save_persistent_data", instance |-> i,
               save_failed |-> ~tmp.exists, raised |-> "none"]
    /\ UNCHANGED <<nodes, relationships, hist, pc>>
    /\ UNCHANGED live

NextTwoSaves ==
    \E i \in Instances :
        \/ two_begin(i)
        \/ two_open(i)
        \/ two_write(i)
        \/ two_written(i)
        \/ two_replace(i)

SpecTwoSaves == InitTwoSaves /\ [][NextTwoSaves]_vars

\* C27: while two stores over one snapshot path save concurrently, the snapshot
\* file holds at every moment the snapshot in place before the saves or the
\* complete serialization of the state of one of the two stores, never a
\* truncated or mixed document.
C27_Claim ==
    \/ file = hist.initial
    \/ \E i \in Instances :
         file = FileOf(JsonDump(arg.inst[i].nodes, arg.inst[i].relationships))

-----------------------------------------------------------------------------
(* Specification SpecMeta: records whose metadata carries keys that           *)
(* store_crawler_records sets itself                                          *)

\* record["metadata"] as the crawlers and the AI pipeline may fill it.
MetaFields ==
    {<<>>,
     [severity |-> PyStr("Informational")],
     [severity |-> PyStr("high")],
     [severity |-> PyNone],
     [name |-> PyStr("from metadata")],
     [source |-> PyStr("feed")],
     [cvss_score |-> PyStr(<<"9", ".", "8">>)],
     [ai_risk_score |-> PyNum(70)],
     [cvss_score |-> PyStr(<<"3", ".", "9">>), severity |-> PyStr("CRITICAL")]}

MetaRecords ==
    LET base == [source |-> PyStr("nvd"), id |-> PyStr("CVE-1"),
                 title |-> PyStr("first")]
        withSeverity == {base} \cup {base @@ ("severity" :> s) : s \in SeverityFields}
    IN  {r @@ ("metadata" :> m) : r \in withSeverity, m \in MetaFields}
        \cup withSeverity

InitMeta ==
    /\ file = Absent
    /\ nodes = <<>>
    /\ relationships = <<>>
    /\ tmp = Absent
    /\ arg = NoCall
    /\ ret = NoCall
    /\ hist = [repeated |-> {}, old |-> <<>>]
    /\ pc = "idle"
    /\ DriverNotInstalled

NextMeta == \E record \in MetaRecords : store_crawler_records(<<record>>)

SpecMeta == InitMeta /\ [][NextMeta]_vars

\* C28: the node store_crawler_records wrote for a record has a severity
\* property that is one of critical, high, medium, low and is the severity
\* computed for the record, whatever keys the record's metadata carries.
C28_Claim ==
    ret.op = "store_crawler_records" =>
        \A i \in DOMAIN ret.records :
            LET written == FileNodes(file, NodeIdOf(ret.records[i]))
            IN  /\ Len(written) = 1
                /\ written[1].obj.properties["severity"]
                     = PyStr(Severity(ret.records[i]))
                /\ Severity(ret.records[i]) \in {"critical", "high", "medium", "low"}

\* C28 for the records whose metadata has no severity key.
C28_WithoutSeverityKey ==
    (/\ ret.op = "store_crawler_records"
     /\ "severity" \notin DOMAIN Get(ret.records[1], "metadata", <<>>))
    => LET written == FileNodes(file, NodeIdOf(ret.records[1]))
       IN  /\ Len(written) = 1
           /\ written[1].obj.properties["severity"] = PyStr(Severity(ret.records[1]))


-----------------------------------------------------------------------------
(* find_attack_paths and parallel relationships (SpecPaths) *)

\* C29: the paths one find_attack_paths call returns are pairwise distinct as
\* sequences of node ids, also when two or more relationships have the same
\* source_id and target_id.
C29_Claim ==
    ret.op = "find_attack_paths" =>
        \A i, j \in DOMAIN ret.value : i # j => ret.value[i] # ret.value[j]

\* C29 where no two relationships join the same pair of nodes in the same
\* direction.
C29_WithoutParallel ==
    (/\ ret.op = "find_attack_paths"
     /\ \A i, j \in DOMAIN relationships :
          (/\ relationships[i].source_id = relationships[j].source_id
           /\ relationships[i].target_id = relationships[j].target_id) => i = j)
    => \A i, j \in DOMAIN ret.value : i # j => ret.value[i] # ret.value[j]


-----------------------------------------------------------------------------
(* query_threats_api and Specification SpecPage: the stored records read page *)
(* by page                                                                    *)

\* The node types query_threats_api lists: line 604.
ListedTypes == {"actor", "malware", "campaign", "CVE", "ThreatIntelligence"}

\* threat_nodes[start:end] for 0 <= start
Slice(s, start, end) ==
    SubSeq(s, start + 1, IF end < Len(s) THEN end ELSE Len(s))

\* The threat object built for a node: lines 615-627.
ThreatObj(node) ==
    [id |-> node.node_id,
     title |-> Get(node.properties, "name", PyStr(node.node_id)),
     severity |-> Get(node.properties, "severity", PyStr("medium")),
     source |-> Get(node.properties, "source", PyStr("Threat Database"))]

\* query_threats_api(page, limit) over the snapshot f: the page and the total,
\* and the snapshot as connector.close() leaves it.
QueryThreatsApi(f, page, limit) ==
    LET loaded == LoadPersistentData(f)
        threat_nodes == SelectSeq(loaded.nodes, LAMBDA n : n.node_type \in ListedTypes)
        start == (page - 1) * limit
        end == start + limit
        shown == Slice(threat_nodes, start, end)
    IN  [threats |-> [i \in DOMAIN shown |-> ThreatObj(shown[i])],
         total |-> Len(threat_nodes),
         file |-> SavePersistentData(loaded.nodes, loaded.relationships, f)]

\* The last page asked for and the largest page size.
MaxPage == 4
MaxLimit == 2

\* Records of a CVE feed, a malware feed, a discussion feed and a source
\* outside the lookup table.
PageRecords ==
    {[source |-> PyStr("nvd"), id |-> PyStr("CVE-1"), title |-> PyStr("first")],
     [source |-> PyStr("malwarebazaar"), id |-> PyStr("m1")],
     [source |-> PyStr("reddit_netsec"), id |-> PyStr("r1")],
     [source |-> PyStr("blog"), id |-> PyStr("b1"), title |-> PyStr("post")]}

InitPage ==
    /\ file = Absent
    /\ nodes = <<>>
    /\ relationships = <<>>
    /\ tmp = Absent
    /\ arg = NoCall
    /\ ret = NoCall
    /\ hist = [repeated |-> {}, old |-> <<>>]
    /\ pc = "idle"
    /\ DriverNotInstalled

query_threats_api(page, limit) ==
    /\ LET out == QueryThreatsApi(file, page, limit)
       IN  /\ file' = out.file
           /\ ret' = [op |-> "query_threats_api", page |-> page, limit |-> limit,
                      threats |-> out.threats, total |-> out.total]
    /\ UNCHANGED <<nodes, relationships, tmp, arg, hist, pc>>
    /\ UNCHANGED live

NextPage ==
    \/ \E record \in PageRecords : store_crawler_records(<<record>>)
    \/ \E page \in 1..MaxPage, limit \in 1..MaxLimit : query_threats_api(page, limit)

SpecPage == InitPage /\ [][NextPage]_vars

\* The pages 1, 2, ... of the given limit that show the node id.
PagesShowing(id, limit) ==
    {page \in 1..(Len(LoadPersistentData(file).nodes) + 1) :
        \E i \in DOMAIN QueryThreatsApi(file, page, limit).threats :
            QueryThreatsApi(file, page, limit).threats[i].id = id}

\* C30: every node store_crawler_records has stored is counted in the total of
\* query_threats_api and is shown on exactly one of the pages 1, 2, ... of a
\* fixed limit, whatever the source of its record.
C30_Claim ==
    ret.op = "query_threats_api" =>
        /\ ret.total = Len(LoadPersistentData(file).nodes)
        /\ \A id \in NodeKeys(LoadPersistentData(file).nodes) :
             Cardinality(PagesShowing(id, ret.limit)) = 1

\* C30 for the stores that hold no node of the default type.
C30_ListedTypes ==
    (/\ ret.op = "query_threats_api"
     /\ \A i \in DOMAIN LoadPersistentData(file).nodes :
          LoadPersistentData(file).nodes[i].node_type \in ListedTypes)
    => /\ ret.total = Len(LoadPersistentData(file).nodes)
       /\ ret.threats = QueryThreatsApi(file, ret.page, ret.limit).threats
       /\ \A id \in NodeKeys(LoadPersistentData(file).nodes) :
            Cardinality(PagesShowing(id, ret.limit)) = 1

====
